---- MODULE Spec2Model ----
(***************************************************************************)
(* A model of gtfstk: the Feed object with its derived indices, the        *)
(* calendar resolution (is_active_trip), the activity queries built on it  *)
(* (get_trips, compute_trips_activity, get_busiest_date, get_routes,       *)
(* compute_stops_activity, get_dates), the statistics of                   *)
(* compute_routes_stats_base, compute_stops_stats_base,                    *)
(* compute_stations_stats, compute_feed_stats and compute_trips_stats, the *)
(* time series of compute_routes_time_series_base and of the stops with    *)
(* downsample, get_first_week, the distances a Feed of calculator.py       *)
(* converts when it is made, and the Feed class of feed.py with its setters *)
(* and copy.                                                               *)
(*                                                                         *)
(* A data frame is a record [isNone, rows]: isNone models Python's None,   *)
(* rows is the sequence of the rows in frame order.  A date string         *)
(* 'YYYYMMDD' is the number YYYYMMDD (eight-digit strings compare like the *)
(* numbers they spell).  A time string 'HH:MM:SS' is the sequence of its   *)
(* character codes, compared the way Python compares strings.  A float is  *)
(* an exact fraction [num, den]; NaN is 0/0.                               *)
(***************************************************************************)
EXTENDS Integers, Sequences, FiniteSets, TLC

VARIABLES feed, op, args, ret

vars == <<feed, op, args, ret>>

----------------------------------------------------------------------------
(* Bounds of the model *)

\* number of consecutive dates, from 20200103 on, that queries are made for
NumDates == 5

\* largest number of rows of calendar_dates
MaxExceptions == 2

\* largest length of the list of dates given to an activity query
MaxDates == 2

\* largest number of rows of a trips_stats_subset or of a stop_times subset
MaxStatRows == 2

\* largest number of trips of a timetable
MaxTimetableTrips == 5

\* largest number of times given to get_peak_indices
MaxPeakTimes == 4

\* largest number of trips of the trips stats given for a time series
MaxSeriesTrips == 2

\* largest number of operations made on the Feed objects of feed.py
MaxFeedSteps == 4

\* largest number of feeds constructed from the same tables
MaxConstructions == 2

----------------------------------------------------------------------------
(* Generic helpers *)

Min(S) == CHOOSE x \in S : \A y \in S : x <= y

Max(S) == CHOOSE x \in S : \A y \in S : x >= y

Range(s) == {s[i] : i \in 1..Len(s)}

RECURSIVE SumSeq(_)
SumSeq(s) == IF s = <<>> THEN 0 ELSE Head(s) + SumSeq(Tail(s))

\* the sequences over S of length at most n
SeqsUpTo(S, n) == UNION {[1..k -> S] : k \in 0..n}

\* the subsets of S with at most n elements
SubsetsUpTo(S, n) == {T \in SUBSET S : Cardinality(T) <= n}

\* some enumeration of a finite set as a sequence
RECURSIVE SetToSeq(_)
SetToSeq(S) ==
    IF S = {} THEN <<>>
    ELSE LET x == CHOOSE y \in S : TRUE IN <<x>> \o SetToSeq(S \ {x})

----------------------------------------------------------------------------
(* Python values: None, data frames, results and exceptions *)

NoneTable == [isNone |-> TRUE, rows |-> <<>>]

DataFrame(rows) == [isNone |-> FALSE, rows |-> rows]

\* DataFrame.empty
IsEmpty(df) == df.rows = <<>>

Return(v) == [raised |-> "none", value |-> v]

Raise(e) == [raised |-> e, value |-> <<>>]

----------------------------------------------------------------------------
(* Dates: utils.datestr_to_date and datetime.date *)

\* days from 1970-01-01 to the date y-m-d of the proleptic Gregorian calendar
DaysFromCivil(y, m, d) ==
    LET yy  == IF m <= 2 THEN y - 1 ELSE y
        era == yy \div 400
        yoe == yy - era * 400
        mp  == IF m > 2 THEN m - 3 ELSE m + 9
        doy == ((153 * mp + 2) \div 5) + d - 1
        doe == yoe * 365 + (yoe \div 4) - (yoe \div 100) + doy
    IN  era * 146097 + doe - 719468

\* datestr_to_date(x): the date object, as its day number
datestr_to_date(x) ==
    DaysFromCivil(x \div 10000, (x \div 100) % 100, x % 100)

\* datestr_to_date(x, inverse=True): the date string of a day number
date_to_datestr(z0) ==
    LET z   == z0 + 719468
        era == z \div 146097
        doe == z - era * 146097
        yoe == (doe - (doe \div 1460) + (doe \div 36524) - (doe \div 146096)) \div 365
        doy == doe - (365 * yoe + (yoe \div 4) - (yoe \div 100))
        mp  == (5 * doy + 2) \div 153
        d   == doy - ((153 * mp + 2) \div 5) + 1
        m   == IF mp < 10 THEN mp + 3 ELSE mp - 9
        y   == yoe + era * 400 + (IF m <= 2 THEN 1 ELSE 0)
    IN  y * 10000 + m * 100 + d

\* date.weekday(): Monday is 0, Sunday is 6 (1970-01-01 was a Thursday)
weekday(dayNumber) == (dayNumber + 3) % 7

\* utils.weekday_to_str: the calendar column of a weekday number
weekday_to_str(w) ==
    <<"monday", "tuesday", "wednesday", "thursday", "friday", "saturday",
      "sunday">>[w + 1]

----------------------------------------------------------------------------
(* Time strings: utils.timestr_to_seconds and Python's string order *)

IsDigit(c) == c \in 48..57

\* '{:02d}:{:02d}:{:02d}'.format(hours, mins, secs), for hours below 100
FormatTime(h, m, s) ==
    <<48 + (h \div 10), 48 + (h % 10), 58, 48 + (m \div 10), 48 + (m % 10),
      58, 48 + (s \div 10), 48 + (s % 10)>>

\* timestr_to_seconds(x, inverse=True)
seconds_to_timestr(x) ==
    FormatTime(x \div 3600, (x % 3600) \div 60, x % 60)

\* timestr_to_seconds(x) of a string 'HH:MM:SS'; -1 stands for the NaN it
\* returns when the string does not parse
timestr_to_seconds(x) ==
    IF /\ Len(x) = 8
       /\ x[3] = 58 /\ x[6] = 58
       /\ \A i \in {1, 2, 4, 5, 7, 8} : IsDigit(x[i])
    THEN ((x[1] - 48) * 10 + (x[2] - 48)) * 3600
         + ((x[4] - 48) * 10 + (x[5] - 48)) * 60
         + ((x[7] - 48) * 10 + (x[8] - 48))
    ELSE -1

\* a <= b for Python strings: lexicographic on the character codes
StrLeq(a, b) ==
    LET n     == IF Len(a) <= Len(b) THEN Len(a) ELSE Len(b)
        diffs == {i \in 1..n : a[i] # b[i]}
    IN  IF diffs = {} THEN Len(a) <= Len(b)
        ELSE a[Min(diffs)] < b[Min(diffs)]

\* Series.min() and Series.max() of a non-empty set of strings
StrMin(S) == CHOOSE x \in S : \A y \in S : StrLeq(x, y)

StrMax(S) == CHOOSE x \in S : \A y \in S : StrLeq(y, x)

----------------------------------------------------------------------------
(* The Feed object *)

\* DataFrame.set_index(key): the rows by their key (None for no frame or an
\* empty one)
SetIndex(df, key) ==
    IF df.isNone \/ IsEmpty(df) THEN [isNone |-> TRUE, at |-> <<>>]
    ELSE [isNone |-> FALSE,
          at |-> [k \in {df.rows[i][key] : i \in 1..Len(df.rows)} |->
                    df.rows[Min({i \in 1..Len(df.rows) : df.rows[i][key] = k})]]]

\* DataFrame.groupby(['service_id', 'date']): the rows of each group, in
\* frame order (None for no frame or an empty one)
GroupByServiceDate(df) ==
    LET keyOf(r) == <<r.service_id, r.date>>
    IN  IF df.isNone \/ IsEmpty(df) THEN [isNone |-> TRUE, groups |-> <<>>]
        ELSE [isNone |-> FALSE,
              groups |-> [k \in {keyOf(df.rows[i]) : i \in 1..Len(df.rows)} |->
                            SelectSeq(df.rows, LAMBDA r : keyOf(r) = k)]]

\* Feed.__init__: the tables and the frames derived for fast searching
Feed(trips, stop_times, calendar, calendar_dates, routes, stops) ==
    [trips            |-> trips,
     stops            |-> stops,
     stop_times       |-> stop_times,
     calendar         |-> calendar,
     calendar_dates   |-> calendar_dates,
     routes           |-> routes,
     trips_i          |-> SetIndex(trips, "trip_id"),
     calendar_i       |-> SetIndex(calendar, "service_id"),
     calendar_dates_g |-> GroupByServiceDate(calendar_dates)]

----------------------------------------------------------------------------
(* Functions about calendars and trips *)

\* is_active_trip with the exception lookup left out
is_active_trip_no_exceptions(f, trip, date) ==
    LET service == f.trips_i.at[trip].service_id
        cali    == f.calendar_i
    IN  /\ ~cali.isNone
        /\ service \in DOMAIN cali.at
        /\ cali.at[service].start_date <= date
        /\ date <= cali.at[service].end_date
        /\ cali.at[service][weekday_to_str(weekday(datestr_to_date(date)))] = 1

\* is_active_trip with the date range of the calendar row left out
is_active_trip_no_range(f, trip, date) ==
    LET service == f.trips_i.at[trip].service_id
        caldg   == f.calendar_dates_g
        cali    == f.calendar_i
    IN  IF ~caldg.isNone /\ <<service, date>> \in DOMAIN caldg.groups
        THEN caldg.groups[<<service, date>>][1].exception_type = 1
        ELSE /\ ~cali.isNone
             /\ service \in DOMAIN cali.at
             /\ cali.at[service][weekday_to_str(weekday(datestr_to_date(date)))] = 1

\* is_active_trip(feed, trip, date)
is_active_trip(f, trip, date) ==
    LET service == f.trips_i.at[trip].service_id
        caldg   == f.calendar_dates_g
        cali    == f.calendar_i
    IN  IF ~caldg.isNone /\ <<service, date>> \in DOMAIN caldg.groups
        THEN \* an exception of type 1 adds the service, any other removes it
             caldg.groups[<<service, date>>][1].exception_type = 1
        ELSE IF ~cali.isNone /\ service \in DOMAIN cali.at
        THEN /\ cali.at[service].start_date <= date
             /\ date <= cali.at[service].end_date
             /\ cali.at[service][weekday_to_str(weekday(datestr_to_date(date)))] = 1
        ELSE \* "If you made it here, then something went wrong"
             FALSE

\* the value None of an optional date or time argument
NoneDate == 0

NoneTime == <<>>

\* the rows of feed.trips whose trip is active on the date, in frame order
ActiveTripRows(f, date) ==
    SelectSeq(f.trips.rows, LAMBDA r : is_active_trip(f, r.trip_id, date))

\* F(group) of get_trips with the times taken as clock times modulo 24 hours
SpansTime_mod24(f, trip, time) ==
    LET clock(x) == timestr_to_seconds(x) % 86400
        deps == {clock(r.departure_time) :
                   r \in {x \in Range(f.stop_times.rows) : x.trip_id = trip}}
    IN  /\ deps # {}
        /\ Min(deps) <= clock(time)
        /\ clock(time) <= Max(deps)

\* F(group) of get_trips: the departure times of the trip's rows of
\* stop_times span the time; a trip without stop times has no group
SpansTime(f, trip, time) ==
    LET deps == {r.departure_time :
                   r \in {x \in Range(f.stop_times.rows) : x.trip_id = trip}}
    IN  /\ deps # {}
        /\ StrLeq(StrMin(deps), time)
        /\ StrLeq(time, StrMax(deps))

\* get_trips(feed, date, time); a group-wise apply over no group is taken to
\* give no row
get_trips(f, date, time) ==
    IF f.trips.isNone THEN Raise("AttributeError")
    ELSE IF date = NoneDate THEN Return(f.trips)
    ELSE IF time = NoneTime THEN Return(DataFrame(ActiveTripRows(f, date)))
    ELSE IF f.stop_times.isNone THEN Raise("TypeError")
    ELSE Return(DataFrame(SelectSeq(ActiveTripRows(f, date),
                                    LAMBDA r : SpansTime(f, r.trip_id, time))))

\* an activity frame: the identifier column, one column per date, and the
\* rows, each with its identifier and its cell of every date column
ActivityFrame(id_column, dates, rows) ==
    [id_column |-> id_column, date_columns |-> dates, rows |-> rows]

\* compute_trips_activity where every column is computed from the last date
compute_trips_activity_last_date(f, dates) ==
    IF dates = <<>> THEN Return(ActivityFrame("trip_id", <<>>, <<>>))
    ELSE IF f.trips.isNone THEN Raise("AttributeError")
    ELSE Return(ActivityFrame("trip_id", dates,
           [i \in 1..Len(f.trips.rows) |->
              [id    |-> f.trips.rows[i].trip_id,
               cells |-> [d \in Range(dates) |->
                            IF is_active_trip(f, f.trips.rows[i].trip_id,
                                              dates[Len(dates)])
                            THEN 1 ELSE 0]]]))

\* compute_trips_activity(feed, dates)
compute_trips_activity(f, dates) ==
    IF dates = <<>> THEN Return(ActivityFrame("trip_id", <<>>, <<>>))
    ELSE IF f.trips.isNone THEN Raise("AttributeError")
    ELSE Return(ActivityFrame("trip_id", dates,
           [i \in 1..Len(f.trips.rows) |->
              [id    |-> f.trips.rows[i].trip_id,
               cells |-> [d \in Range(dates) |->
                            IF is_active_trip(f, f.trips.rows[i].trip_id, d)
                            THEN 1 ELSE 0]]]))

\* f[date].sum() of an activity frame
ColumnSum(frame, date) ==
    SumSeq([i \in 1..Len(frame.rows) |-> frame.rows[i].cells[date]])

\* get_busiest_date(feed, dates): max() of the pairs (column sum, date)
get_busiest_date(f, dates) ==
    LET act == compute_trips_activity(f, dates)
    IN  IF act.raised # "none" THEN act
        ELSE IF dates = <<>> THEN Raise("ValueError")
        ELSE LET best == Max({ColumnSum(act.value, d) : d \in Range(dates)})
             IN  Return(Max({d \in Range(dates) :
                               ColumnSum(act.value, d) = best}))

\* get_routes where a date still yields every route
get_routes_all(f, date, time) ==
    IF f.routes.isNone THEN Raise("AttributeError") ELSE Return(f.routes)

\* get_routes(feed, date, time)
get_routes(f, date, time) ==
    IF date = NoneDate
    THEN IF f.routes.isNone THEN Raise("AttributeError") ELSE Return(f.routes)
    ELSE LET trips == get_trips(f, date, time)
         IN  IF trips.raised # "none" THEN trips
             ELSE IF f.routes.isNone THEN Raise("TypeError")
             ELSE LET R == {r.route_id : r \in Range(trips.value.rows)}
                  IN  Return(DataFrame(SelectSeq(f.routes.rows,
                                                 LAMBDA r : r.route_id \in R)))

\* get_dates(feed): the date strings from the first to the last date of the
\* calendar, or of calendar_dates when there is no calendar
get_dates(f) ==
    LET table == IF ~f.calendar.isNone THEN f.calendar ELSE f.calendar_dates
        firsts == IF ~f.calendar.isNone
                  THEN {r.start_date : r \in Range(table.rows)}
                  ELSE {r.date : r \in Range(table.rows)}
        lasts  == IF ~f.calendar.isNone
                  THEN {r.end_date : r \in Range(table.rows)}
                  ELSE {r.date : r \in Range(table.rows)}
        start_date == datestr_to_date(Min(firsts))
        end_date   == datestr_to_date(Max(lasts))
        num_days   == end_date - start_date
    IN  IF table.isNone THEN Raise("TypeError")
        ELSE IF IsEmpty(table) THEN Raise("TypeError")
        ELSE Return([d \in 1..(num_days + 1) |->
                       date_to_datestr(start_date + d - 1)])

\* get_dates(feed, as_date_obj=True): the dates as day numbers
get_dates_as_date_obj(f) ==
    LET table == IF ~f.calendar.isNone THEN f.calendar ELSE f.calendar_dates
        firsts == IF ~f.calendar.isNone
                  THEN {r.start_date : r \in Range(table.rows)}
                  ELSE {r.date : r \in Range(table.rows)}
        lasts  == IF ~f.calendar.isNone
                  THEN {r.end_date : r \in Range(table.rows)}
                  ELSE {r.date : r \in Range(table.rows)}
        start_date == datestr_to_date(Min(firsts))
        end_date   == datestr_to_date(Max(lasts))
        num_days   == end_date - start_date
    IN  IF table.isNone THEN Raise("TypeError")
        ELSE IF IsEmpty(table) THEN Raise("TypeError")
        ELSE Return([d \in 1..(num_days + 1) |-> start_date + d - 1])

\* get_first_week that takes the first date of the feed for a Monday
get_first_week_from_first_date(f) ==
    LET dates == get_dates_as_date_obj(f)
    IN  IF dates.raised # "none" THEN dates
        ELSE Return([j \in 1..Min({7, Len(dates.value)}) |->
                       date_to_datestr(dates.value[j])])

\* get_first_week(feed): the dates from the first Monday on, seven of them
\* or as many as there are; dates[None + j] raises when there is no Monday,
\* and the bare except then leaves the week empty
get_first_week(f) ==
    LET dates == get_dates_as_date_obj(f)
        mondays == {i \in 1..Len(dates.value) : weekday(dates.value[i]) = 0}
        monday_index == Min(mondays)
        week == IF mondays = {} THEN <<>>
                ELSE [j \in 1..Min({7, Len(dates.value) - monday_index + 1}) |->
                        dates.value[monday_index + j - 1]]
    IN  IF dates.raised # "none" THEN dates
        ELSE Return([j \in 1..Len(week) |-> date_to_datestr(week[j])])

\* the stop identifiers of the model, in their sorted order
StopIds == <<"A", "B", "C">>

\* compute_stops_activity(feed, dates): the trips activity merged with the
\* stop times, grouped by stop, with the maximum of each date column
compute_stops_activity(f, dates) ==
    IF dates = <<>> THEN Return(ActivityFrame("stop_id", <<>>, <<>>))
    ELSE LET act == compute_trips_activity(f, dates)
         IN  IF act.raised # "none" THEN act
             ELSE IF f.stop_times.isNone THEN Raise("TypeError")
             ELSE LET merged(stop) ==
                          {<<a, st>> \in Range(act.value.rows)
                                         \X Range(f.stop_times.rows) :
                             a.id = st.trip_id /\ st.stop_id = stop}
                      stops == SelectSeq(StopIds,
                                         LAMBDA stop : merged(stop) # {})
                  IN  Return(ActivityFrame("stop_id", dates,
                        [i \in 1..Len(stops) |->
                           [id    |-> stops[i],
                            cells |-> [d \in Range(dates) |->
                                         Max({m[1].cells[d] :
                                                m \in merged(stops[i])})]]]))

----------------------------------------------------------------------------
(* The feeds and the arguments of the model *)

MonFri == <<1, 1, 1, 1, 1, 0, 0>>

SatSun == <<0, 0, 0, 0, 0, 1, 1>>

AllWeek == <<1, 1, 1, 1, 1, 1, 1>>

CalendarRow(service, flags, start_date, end_date) ==
    [service_id |-> service,
     monday |-> flags[1], tuesday |-> flags[2], wednesday |-> flags[3],
     thursday |-> flags[4], friday |-> flags[5], saturday |-> flags[6],
     sunday |-> flags[7],
     start_date |-> start_date, end_date |-> end_date]

\* the dates queries are made for: NumDates days from Friday 20200103 on
QueryDates ==
    {date_to_datestr(datestr_to_date(20200103) + k) : k \in 0..(NumDates - 1)}

\* the lists of dates given to the activity queries: no date twice
DateLists ==
    {l \in SeqsUpTo(QueryDates, MaxDates) :
       \A i, j \in 1..Len(l) : i # j => l[i] # l[j]}

QueryTimes ==
    {FormatTime(8, 0, 0), FormatTime(9, 30, 1), FormatTime(0, 5, 0),
     FormatTime(24, 10, 0), FormatTime(25, 0, 0)}

TripsTable ==
    DataFrame(<<[trip_id |-> "t1", route_id |-> "r1", service_id |-> "s1"],
                [trip_id |-> "t2", route_id |-> "r1", service_id |-> "s2"],
                [trip_id |-> "t3", route_id |-> "r2", service_id |-> "s2"]>>)

RoutesTable ==
    DataFrame(<<[route_id |-> "r1", route_short_name |-> "1"],
                [route_id |-> "r2", route_short_name |-> "2"],
                [route_id |-> "r3", route_short_name |-> "3"]>>)

StopTime(trip, stop, h, m, s) ==
    [trip_id |-> trip, stop_id |-> stop, departure_time |-> FormatTime(h, m, s)]

\* t1 runs 08:00:00-09:30:00; t2 runs over midnight or has no stop times;
\* t3 runs after midnight only
StopTimesTables ==
    {DataFrame(<<StopTime("t1", "A", 8, 0, 0), StopTime("t1", "B", 9, 30, 0),
                 StopTime("t2", "B", 23, 50, 0), StopTime("t2", "C", 24, 10, 0),
                 StopTime("t3", "A", 25, 0, 0)>>),
     DataFrame(<<StopTime("t1", "B", 9, 30, 0), StopTime("t1", "A", 8, 0, 0),
                 StopTime("t3", "C", 24, 10, 0), StopTime("t3", "A", 25, 0, 0)>>)}

\* the calendars: no table, or a table with at most one row per service
CalendarTables ==
    LET s1 == {<<>>} \cup
              {<<CalendarRow("s1", fl, sd, ed)>> :
                 fl \in {MonFri, SatSun}, sd \in {20200101, 20200105},
                 ed \in {20200106, 20200131}}
        s2 == {<<>>, <<CalendarRow("s2", AllWeek, 20200104, 20200106)>>}
    IN  {NoneTable} \cup {DataFrame(a \o b) : a \in s1, b \in s2}

\* the exception tables: no table, or at most MaxExceptions rows with at
\* most one row for a service and a date
CalendarDatesTables ==
    LET rows == {[service_id |-> x[1], date |-> x[2], exception_type |-> et] :
                   x \in {<<"s1", 20200104>>, <<"s1", 20200106>>,
                          <<"s2", 20200106>>},
                   et \in {1, 2}}
        sets == {S \in SubsetsUpTo(rows, MaxExceptions) :
                   \A a, b \in S :
                     (a.service_id = b.service_id /\ a.date = b.date) => a = b}
    IN  {NoneTable} \cup {DataFrame(SetToSeq(S)) : S \in sets}

Feeds ==
    {Feed(TripsTable, st, c, cd, RoutesTable, NoneTable) :
       st \in StopTimesTables, c \in CalendarTables, cd \in CalendarDatesTables}

----------------------------------------------------------------------------
(* The calls *)

\* a call is made when no call is pending; op, args and ret then hold the
\* function called, its arguments and what it returned or raised
Idle == op = "none"

Call(name, arguments, result) ==
    /\ op' = name
    /\ args' = arguments
    /\ ret' = result
    /\ UNCHANGED feed

TripIdsOf(f) == {r.trip_id : r \in Range(f.trips.rows)}

IsActiveTrip ==
    /\ Idle
    /\ \E trip \in TripIdsOf(feed), date \in QueryDates :
           Call("is_active_trip", [trip |-> trip, date |-> date],
                Return(is_active_trip(feed, trip, date)))

GetTrips ==
    /\ Idle
    /\ \E date \in QueryDates \cup {NoneDate}, time \in QueryTimes \cup {NoneTime} :
           Call("get_trips", [date |-> date, time |-> time],
                get_trips(feed, date, time))

ComputeTripsActivity ==
    /\ Idle
    /\ \E dates \in DateLists :
           Call("compute_trips_activity", [dates |-> dates],
                compute_trips_activity(feed, dates))

GetBusiestDate ==
    /\ Idle
    /\ \E dates \in DateLists :
           Call("get_busiest_date", [dates |-> dates],
                get_busiest_date(feed, dates))

ComputeStopsActivity ==
    /\ Idle
    /\ \E dates \in DateLists :
           Call("compute_stops_activity", [dates |-> dates],
                compute_stops_activity(feed, dates))

GetRoutes ==
    /\ Idle
    /\ \E date \in QueryDates \cup {NoneDate}, time \in QueryTimes \cup {NoneTime} :
           Call("get_routes", [date |-> date, time |-> time],
                get_routes(feed, date, time))

GetDates ==
    /\ Idle
    /\ Call("get_dates", <<>>, get_dates(feed))

GetFirstWeek ==
    /\ Idle
    /\ Call("get_first_week", <<>>, get_first_week(feed))

\* the caller takes the result and is ready for the next call
Done ==
    /\ op # "none"
    /\ op' = "none"
    /\ args' = <<>>
    /\ ret' = Return(<<>>)
    /\ UNCHANGED feed

Init ==
    /\ feed \in Feeds
    /\ op = "none"
    /\ args = <<>>
    /\ ret = Return(<<>>)

Next ==
    \/ IsActiveTrip
    \/ GetTrips
    \/ ComputeTripsActivity
    \/ GetBusiestDate
    \/ ComputeStopsActivity
    \/ GetRoutes
    \/ GetDates
    \/ GetFirstWeek
    \/ Done

Spec == Init /\ [][Next]_vars

----------------------------------------------------------------------------
(* Properties of the calendar resolution and of the activity queries,      *)
(* stated on the tables of the feed and on the recorded call               *)

\* the service of a trip, read from the trips table
ServiceOfTrip(trip) ==
    LET r == CHOOSE x \in Range(feed.trips.rows) : x.trip_id = trip
    IN  r.service_id

\* the rows of calendar_dates for a service and a date
ExceptionsFor(service, date) ==
    {e \in Range(feed.calendar_dates.rows) :
       e.service_id = service /\ e.date = date}

\* some calendar row of the service covers the date and has the flag of the
\* date's weekday set
CalendarCovers(service, date) ==
    \E c \in Range(feed.calendar.rows) :
        /\ c.service_id = service
        /\ c.start_date <= date /\ date <= c.end_date
        /\ c[weekday_to_str(weekday(datestr_to_date(date)))] = 1

\* C1: when calendar_dates holds an exception for the service of the trip and
\* the date, is_active_trip returns True for an Added (1) exception and False
\* for a Removed (2) one, whatever the calendar row of the service says.
C1_ExceptionOverridesCalendar ==
    op = "is_active_trip" =>
        \A e \in ExceptionsFor(ServiceOfTrip(args.trip), args.date) :
            /\ ret.raised = "none"
            /\ e.exception_type = 1 => ret.value = TRUE
            /\ e.exception_type = 2 => ret.value = FALSE

\* C1 happens: a Removed exception on a date the calendar row covers, and an
\* answer of False
C1_Witness ==
    /\ op = "is_active_trip"
    /\ \E e \in ExceptionsFor(ServiceOfTrip(args.trip), args.date) :
           e.exception_type = 2
    /\ CalendarCovers(ServiceOfTrip(args.trip), args.date)
    /\ ret.value = FALSE

\* C2: with no exception for the service of the trip and the date,
\* is_active_trip returns True exactly when a calendar row of the service has
\* start_date <= date <= end_date and the flag of the date's weekday equal to
\* 1; so it returns False when the service has no calendar row.
C2_WeeklyPatternWithoutException ==
    (op = "is_active_trip"
       /\ ExceptionsFor(ServiceOfTrip(args.trip), args.date) = {}) =>
        /\ ret.raised = "none"
        /\ ret.value = CalendarCovers(ServiceOfTrip(args.trip), args.date)

\* C2 happens: a service with exceptions on other dates only and a calendar
\* row whose weekday flag is set but whose date range excludes the date
C2_Witness ==
    /\ op = "is_active_trip"
    /\ ExceptionsFor(ServiceOfTrip(args.trip), args.date) = {}
    /\ \E e \in Range(feed.calendar_dates.rows) :
           e.service_id = ServiceOfTrip(args.trip)
    /\ \E c \in Range(feed.calendar.rows) :
           /\ c.service_id = ServiceOfTrip(args.trip)
           /\ c[weekday_to_str(weekday(datestr_to_date(args.date)))] = 1
           /\ args.date < c.start_date
    /\ ret.value = FALSE

\* the trip identifiers of the rows of a frame
TripIdsIn(frame) == {r.trip_id : r \in Range(frame.rows)}

\* C3: for a non-empty list of dates, the sum of each date's column of
\* compute_trips_activity equals the number of trips get_trips returns for
\* the date, and a trip's cell is 1 exactly when get_trips returns the trip.
C3_ActivityColumnsMatchGetTrips ==
    (op = "compute_trips_activity" /\ args.dates # <<>>) =>
        /\ ret.raised = "none"
        /\ \A d \in Range(args.dates) :
             LET trips == get_trips(feed, d, NoneTime).value
             IN  /\ ColumnSum(ret.value, d) = Len(trips.rows)
                 /\ \A i \in 1..Len(ret.value.rows) :
                      (ret.value.rows[i].cells[d] = 1)
                        <=> (ret.value.rows[i].id \in TripIdsIn(trips))

\* C3 happens: an activity frame of two dates with different numbers of
\* active trips, neither zero
C3_Witness ==
    /\ op = "compute_trips_activity"
    /\ Len(args.dates) = 2
    /\ ColumnSum(ret.value, args.dates[1]) > ColumnSum(ret.value, args.dates[2])
    /\ ColumnSum(ret.value, args.dates[2]) > 0

\* the number of trips of the feed active on a date
NumActiveTrips(date) ==
    Cardinality({t \in TripIdsOf(feed) : is_active_trip(feed, t, date)})

\* C4: get_busiest_date returns a date with the largest number of active
\* trips among the given dates, and of several such dates the one that comes
\* first in the list.
C4_BusiestDateIsFirstMaximal ==
    (op = "get_busiest_date" /\ args.dates # <<>>) =>
        /\ ret.raised = "none"
        /\ \E i \in 1..Len(args.dates) :
             /\ args.dates[i] = ret.value
             /\ \A j \in 1..Len(args.dates) :
                  NumActiveTrips(args.dates[j]) <= NumActiveTrips(ret.value)
             /\ \A j \in 1..Len(args.dates) :
                  NumActiveTrips(args.dates[j]) = NumActiveTrips(ret.value)
                    => i <= j

\* C5: with an empty list of dates, compute_trips_activity,
\* compute_stops_activity and get_busiest_date raise nothing, and the two
\* activity functions return an empty frame with the identifier column only.
C5_EmptyDatesGiveEmptyResult ==
    (op \in {"compute_trips_activity", "compute_stops_activity",
             "get_busiest_date"} /\ args.dates = <<>>) =>
        /\ ret.raised = "none"
        /\ op # "get_busiest_date" =>
             /\ ret.value.rows = <<>>
             /\ ret.value.date_columns = <<>>

\* the departure times, in seconds, of a trip's rows of stop_times
DepartureSeconds(trip) ==
    {timestr_to_seconds(r.departure_time) :
       r \in {x \in Range(feed.stop_times.rows) : x.trip_id = trip}}

C8_NoCalendarTablesRaise ==
    (/\ feed.calendar.isNone
     /\ feed.calendar_dates.isNone
     /\ \/ op = "get_dates"
        \/ op = "get_trips" /\ args.date # NoneDate
        \/ op = "compute_trips_activity" /\ args.dates # <<>>) =>
        ret.raised # "none"

----------------------------------------------------------------------------
(* Floats, as exact fractions *)

RECURSIVE Gcd(_, _)
Gcd(a, b) == IF b = 0 THEN a ELSE Gcd(b, a % b)

\* np.nan
NaN == [num |-> 0, den |-> 0]

\* the float n/d, for n >= 0 and d > 0
Frac(n, d) == [num |-> n \div Gcd(n, d), den |-> d \div Gcd(n, d)]

\* sorted(s)
RECURSIVE Sorted(_)
Sorted(s) ==
    IF s = <<>> THEN <<>>
    ELSE LET m == Min(Range(s))
             i == Min({k \in 1..Len(s) : s[k] = m})
         IN  <<m>> \o Sorted(SubSeq(s, 1, i - 1) \o SubSeq(s, i + 1, Len(s)))

\* np.diff(s)
Diff(s) ==
    IF s = <<>> THEN <<>>
    ELSE [i \in 1..(Len(s) - 1) |-> s[i + 1] - s[i]]

\* np.inf
Inf == [num |-> 1, den |-> 0]

IsNaN(x) == x.num = 0 /\ x.den = 0

\* a + b for floats that are not negative
FAdd(a, b) ==
    IF IsNaN(a) \/ IsNaN(b) THEN NaN
    ELSE IF a.den = 0 \/ b.den = 0 THEN Inf
    ELSE Frac((a.num * b.den) + (b.num * a.den), a.den * b.den)

\* a * b for floats that are not negative
FMul(a, b) ==
    IF IsNaN(a) \/ IsNaN(b) THEN NaN
    ELSE IF a.den = 0 \/ b.den = 0
    THEN (IF a.num = 0 \/ b.num = 0 THEN NaN ELSE Inf)
    ELSE Frac(a.num * b.num, a.den * b.den)

\* a / b for floats that are not negative, the way NumPy divides: x/0 is inf
\* and 0/0 is NaN
FDiv(a, b) ==
    IF IsNaN(a) \/ IsNaN(b) THEN NaN
    ELSE IF b.den = 0 THEN (IF a.den = 0 THEN NaN ELSE Frac(0, 1))
    ELSE IF a.den = 0 THEN Inf
    ELSE IF b.num = 0 THEN (IF a.num = 0 THEN NaN ELSE Inf)
    ELSE Frac(a.num * b.den, a.den * b.num)

\* a <= b for floats that are neither NaN nor inf
FLeq(a, b) == a.num * b.den <= b.num * a.den

\* the values a build of pandas gives to the sum of a column that holds
\* nothing but NaN: NaN (pandas before 0.22 without bottleneck) or 0
AllNaNSums == {NaN, Frac(0, 1)}

\* Series.sum(): the sum of the values that are not NaN
RECURSIVE SumSkipNaN(_)
SumSkipNaN(values) ==
    IF values = <<>> THEN Frac(0, 1)
    ELSE IF IsNaN(Head(values)) THEN SumSkipNaN(Tail(values))
    ELSE FAdd(Head(values), SumSkipNaN(Tail(values)))

\* Series.sum() of a column that is not empty
SeriesSum(values, all_nan_sum) ==
    IF \A i \in 1..Len(values) : IsNaN(values[i])
    THEN all_nan_sum
    ELSE SumSkipNaN(values)

----------------------------------------------------------------------------
(* The peak of simultaneous trips *)

\* count_active_trips(trips, time): the trips with start_time <= time and
\* end_time >= time, the end of a trip counted as in service
count_active_trips_closed(trips, time) ==
    Len(SelectSeq(trips,
           LAMBDA r : r.start_time <= time /\ r.end_time >= time))

\* count_active_trips(trips, time): the trips with start_time <= time and
\* end_time > time
count_active_trips(trips, time) ==
    Len(SelectSeq(trips,
           LAMBDA r : r.start_time <= time /\ r.end_time > time))

\* the runs <<i, j>> of indices at which counts has its greatest value, none
\* of them part of a longer run
MaxRuns(counts) ==
    LET m == Max(Range(counts))
    IN  {r \in (1..Len(counts)) \X (1..Len(counts)) :
           /\ r[1] <= r[2]
           /\ \A k \in r[1]..r[2] : counts[k] = m
           /\ r[1] > 1 => counts[r[1] - 1] # m
           /\ r[2] < Len(counts) => counts[r[2] + 1] # m}

\* utils.get_peak_indices(times, counts): the first and the last index of
\* the first longest run of times at which counts has its greatest value
get_peak_indices(times, counts) ==
    LET span(r) == times[r[2]] - times[r[1]]
    IN  CHOOSE r \in MaxRuns(counts) :
            \A q \in MaxRuns(counts) :
                \/ span(r) > span(q)
                \/ span(r) = span(q) /\ r[1] <= q[1]

\* np.unique(group[['start_time', 'end_time']].values)
StartAndEndTimes(group) ==
    Sorted(SetToSeq({group[i].start_time : i \in 1..Len(group)}
                    \cup {group[i].end_time : i \in 1..Len(group)}))

\* peak_num_trips, peak_start_time and peak_end_time of a group
PeakStats(group) ==
    LET times  == StartAndEndTimes(group)
        counts == [i \in 1..Len(times) |-> count_active_trips(group, times[i])]
        peak   == get_peak_indices(times, counts)
    IN  [peak_num_trips  |-> counts[peak[1]],
         peak_start_time |-> times[peak[1]],
         peak_end_time   |-> times[peak[2]]]

\* service_distance and service_duration of a group
ServiceStats(group, all_nan_sum) ==
    [service_distance |->
         SeriesSum([i \in 1..Len(group) |-> group[i].distance], all_nan_sum),
     service_duration |->
         SeriesSum([i \in 1..Len(group) |-> group[i].duration], all_nan_sum)]

----------------------------------------------------------------------------
(* Functions about routes and stops: the headway statistics *)

\* the direction_id of a trip that has none
NaNDirection == -1

\* the route identifiers of the model, in their sorted order
RouteIds == <<"r1", "r2">>

\* headway_start <= time <= headway_end with the end of the window left out
InHeadwayWindow_open(time, headway_start, headway_end) ==
    headway_start <= time /\ time < headway_end

\* headway_start <= time <= headway_end
InHeadwayWindow(time, headway_start, headway_end) ==
    headway_start <= time /\ time <= headway_end

\* sorted([t for t in times if headway_start <= t <= headway_end])
WindowTimes(times, headway_start, headway_end) ==
    Sorted(SelectSeq(times,
              LAMBDA t : InHeadwayWindow(t, headway_start, headway_end)))

\* max_headway, min_headway and mean_headway, in minutes, of the headways in
\* seconds
HeadwayStats(headways) ==
    IF headways # <<>>
    THEN [max_headway  |-> Frac(Max(Range(headways)), 60),
          min_headway  |-> Frac(Min(Range(headways)), 60),
          mean_headway |-> Frac(SumSeq(headways), 60 * Len(headways))]
    ELSE [max_headway |-> NaN, min_headway |-> NaN, mean_headway |-> NaN]

\* the start times of the rows of a group
StartTimes(group) == [i \in 1..Len(group) |-> group[i].start_time]

\* the headways of compute_route_stats_split_directions: the differences of
\* the start times of the group within the window
SplitRouteHeadways(group, headway_start, headway_end) ==
    Diff(WindowTimes(StartTimes(group), headway_start, headway_end))

\* the headways of compute_route_stats taken over the trips of both
\* directions at once
RouteHeadways_pooled(group, headway_start, headway_end) ==
    Diff(WindowTimes(StartTimes(group), headway_start, headway_end))

\* the headways of compute_route_stats with the loop over the directions
\* stopped after direction 0
RouteHeadways_direction_0(group, headway_start, headway_end) ==
    Diff(WindowTimes(StartTimes(SelectSeq(group,
                                  LAMBDA r : r.direction_id = 0)),
                     headway_start, headway_end))

\* the headways of compute_route_stats: those of direction 0 followed by
\* those of direction 1
RouteHeadways(group, headway_start, headway_end) ==
    LET ofDirection(direction) ==
            Diff(WindowTimes(
                   StartTimes(SelectSeq(group,
                                LAMBDA r : r.direction_id = direction)),
                   headway_start, headway_end))
    IN  ofDirection(0) \o ofDirection(1)

\* the distinct values of a column of a group; NaN counts as a value
Unique(group, column) == {group[i][column] : i \in 1..Len(group)}

\* compute_route_stats_split_directions(group), the times in seconds
compute_route_stats_split_directions(group, headway_start, headway_end, all_nan_sum) ==
    [num_trips  |-> Len(group),
     start_time |-> Min({group[i].start_time : i \in 1..Len(group)}),
     end_time   |-> Max({group[i].end_time : i \in 1..Len(group)})]
    @@ HeadwayStats(SplitRouteHeadways(group, headway_start, headway_end))
    @@ PeakStats(group)
    @@ ServiceStats(group, all_nan_sum)

\* compute_route_stats(group), the times in seconds
compute_route_stats(group, headway_start, headway_end, all_nan_sum) ==
    [num_trips        |-> Len(group),
     is_bidirectional |-> IF Cardinality(Unique(group, "direction_id")) > 1
                          THEN 1 ELSE 0,
     start_time       |-> Min({group[i].start_time : i \in 1..Len(group)}),
     end_time         |-> Max({group[i].end_time : i \in 1..Len(group)})]
    @@ HeadwayStats(RouteHeadways(group, headway_start, headway_end))
    @@ PeakStats(group)
    @@ ServiceStats(group, all_nan_sum)

\* the columns of the frame compute_routes_stats_base returns
RoutesStatsColumns(split_directions) ==
    {"route_id", "route_short_name", "num_trips", "is_loop",
     "is_bidirectional", "start_time", "end_time", "max_headway",
     "min_headway", "mean_headway", "peak_num_trips", "peak_start_time",
     "peak_end_time", "service_duration", "service_distance", "service_speed",
     "mean_trip_distance", "mean_trip_duration"}
    \cup (IF split_directions THEN {"direction_id"} ELSE {})

\* a row of stats with its times converted back to time strings
WithTimeStrings(row) ==
    [row EXCEPT !.start_time = seconds_to_timestr(@),
                !.end_time = seconds_to_timestr(@)]

\* the 'few more stats' of a row of route stats, and its times converted back
\* to time strings
FinishRouteStats(row) ==
    [service_speed |-> FDiv(row.service_distance, row.service_duration),
     mean_trip_distance |-> FDiv(row.service_distance, Frac(row.num_trips, 1)),
     mean_trip_duration |-> FDiv(row.service_duration, Frac(row.num_trips, 1))]
    @@ [WithTimeStrings(row) EXCEPT
          !.peak_start_time = seconds_to_timestr(@),
          !.peak_end_time = seconds_to_timestr(@)]

\* compute_routes_stats_base(trips_stats_subset, split_directions,
\* headway_start_time, headway_end_time): one row per route, or per route and
\* direction (groupby leaves out the rows with a NaN key), in key order;
\* all_nan_sum is what the build's pandas makes of a sum of NaN only
compute_routes_stats_base(trips_stats_subset, split_directions, headway_start_time, headway_end_time, all_nan_sum) ==
    LET f == [i \in 1..Len(trips_stats_subset.rows) |->
                [trips_stats_subset.rows[i] EXCEPT
                   !.start_time = timestr_to_seconds(@),
                   !.end_time = timestr_to_seconds(@)]]
        headway_start == timestr_to_seconds(headway_start_time)
        headway_end   == timestr_to_seconds(headway_end_time)
        byRoute(route) == SelectSeq(f, LAMBDA r : r.route_id = route)
        byRouteDirection(key) ==
            SelectSeq(f, LAMBDA r : r.route_id = key[1]
                                     /\ r.direction_id = key[2])
        routes == SelectSeq(RouteIds, LAMBDA route : byRoute(route) # <<>>)
        keys == SelectSeq(<<<<RouteIds[1], 0>>, <<RouteIds[1], 1>>,
                            <<RouteIds[2], 0>>, <<RouteIds[2], 1>>>>,
                          LAMBDA key : byRouteDirection(key) # <<>>)
        is_bidirectional(route) ==
            IF Cardinality({i \in 1..Len(keys) : keys[i][1] = route}) > 1
            THEN 1 ELSE 0
    IN  IF IsEmpty(trips_stats_subset)
        THEN Return([columns |-> RoutesStatsColumns(split_directions),
                     rows |-> <<>>])
        ELSE IF split_directions
        THEN Return([columns |-> RoutesStatsColumns(split_directions),
                     rows |-> [i \in 1..Len(keys) |->
                        FinishRouteStats(
                          [route_id |-> keys[i][1],
                           direction_id |-> keys[i][2],
                           is_bidirectional |-> is_bidirectional(keys[i][1])]
                          @@ compute_route_stats_split_directions(
                               byRouteDirection(keys[i]),
                               headway_start, headway_end, all_nan_sum))]])
        ELSE Return([columns |-> RoutesStatsColumns(split_directions),
                     rows |-> [i \in 1..Len(routes) |->
                        FinishRouteStats(
                          [route_id |-> routes[i]]
                          @@ compute_route_stats(byRoute(routes[i]),
                                                 headway_start, headway_end,
                                                 all_nan_sum))]])

\* the columns of the frame compute_stops_stats_base returns
StopsStatsColumns(split_directions) ==
    {"stop_id", "num_routes", "num_trips", "max_headway", "min_headway",
     "mean_headway", "start_time", "end_time"}
    \cup (IF split_directions THEN {"direction_id"} ELSE {})

\* stop_times.merge(trips_subset): the rows of stop_times of the trips of the
\* subset, each with the columns of its trip
MergeStopTimes(stop_times, trips_subset) ==
    LET matches(st) == {t \in Range(trips_subset.rows) : t.trip_id = st.trip_id}
        kept == SelectSeq(stop_times.rows, LAMBDA st : matches(st) # {})
    IN  [i \in 1..Len(kept) |->
           LET t == CHOOSE x \in matches(kept[i]) : TRUE
           IN  [trip_id |-> kept[i].trip_id,
                stop_id |-> kept[i].stop_id,
                departure_time |-> kept[i].departure_time,
                route_id |-> t.route_id,
                direction_id |-> t.direction_id]]

\* compute_stop_stats(group), the times in seconds
compute_stop_stats(group, headway_start, headway_end) ==
    LET dtimes == WindowTimes([i \in 1..Len(group) |-> group[i].departure_time],
                              headway_start, headway_end)
    IN  [num_routes |-> Cardinality(Unique(group, "route_id")),
         num_trips  |-> Len(group),
         start_time |-> Min({group[i].departure_time : i \in 1..Len(group)}),
         end_time   |-> Max({group[i].departure_time : i \in 1..Len(group)})]
        @@ HeadwayStats(Diff(dtimes))

\* compute_stops_stats_base(stop_times, trips_subset, split_directions,
\* headway_start_time, headway_end_time): one row per stop, or per stop and
\* direction (groupby leaves out the rows with a NaN key), in key order
compute_stops_stats_base(stop_times, trips_subset, split_directions, headway_start_time, headway_end_time) ==
    LET merged == MergeStopTimes(stop_times, trips_subset)
        f == [i \in 1..Len(merged) |->
                [merged[i] EXCEPT !.departure_time = timestr_to_seconds(@)]]
        headway_start == timestr_to_seconds(headway_start_time)
        headway_end   == timestr_to_seconds(headway_end_time)
        byStop(stop) == SelectSeq(f, LAMBDA r : r.stop_id = stop)
        byStopDirection(key) ==
            SelectSeq(f, LAMBDA r : r.stop_id = key[1]
                                     /\ r.direction_id = key[2])
        stops == SelectSeq(StopIds, LAMBDA stop : byStop(stop) # <<>>)
        allKeys == [i \in 1..(2 * Len(StopIds)) |->
                      <<StopIds[(i + 1) \div 2], (i + 1) % 2>>]
        keys == SelectSeq(allKeys, LAMBDA key : byStopDirection(key) # <<>>)
    IN  IF IsEmpty(trips_subset)
        THEN Return([columns |-> StopsStatsColumns(split_directions),
                     rows |-> <<>>])
        ELSE IF split_directions
        THEN Return([columns |-> StopsStatsColumns(split_directions),
                     rows |-> [i \in 1..Len(keys) |->
                        WithTimeStrings(
                          [stop_id |-> keys[i][1], direction_id |-> keys[i][2]]
                          @@ compute_stop_stats(byStopDirection(keys[i]),
                                                headway_start, headway_end))]])
        ELSE Return([columns |-> StopsStatsColumns(split_directions),
                     rows |-> [i \in 1..Len(stops) |->
                        WithTimeStrings(
                          [stop_id |-> stops[i]]
                          @@ compute_stop_stats(byStop(stops[i]),
                                                headway_start, headway_end))]])

----------------------------------------------------------------------------
(* Functions about stations and feeds *)

\* parent_station of a stop that has none
NoParent == ""

\* the station identifiers of the model, in their sorted order
StationIds == <<"S", "T">>

\* get_stop_times(feed, date): the stop times of the trips active on the date
get_stop_times(f, date) ==
    LET g == get_trips(f, date, NoneTime)
    IN  IF f.stop_times.isNone THEN Raise("AttributeError")
        ELSE IF g.raised # "none" THEN g
        ELSE Return(DataFrame(SelectSeq(f.stop_times.rows,
               LAMBDA st : \E t \in Range(g.value.rows) :
                               t.trip_id = st.trip_id)))

\* get_stops_in_stations(feed): the stops with a parent station, in a frame
\* with the columns of feed.stops
get_stops_in_stations(f) ==
    IF f.stops.isNone THEN Raise("TypeError")
    ELSE IF ~({"location_type", "parent_station"} \subseteq f.stops.columns)
    THEN Raise("KeyError")
    ELSE Return([f.stops EXCEPT !.rows =
                   SelectSeq(@, LAMBDA r : /\ r.location_type # 1
                                           /\ r.parent_station # NoParent)])

\* the columns of the frame compute_stations_stats computes
StationsStatsColumns ==
    {"parent_station", "num_trips", "start_time", "end_time", "max_headway",
     "mean_headway"}

\* compute_stations_stats(feed, date, split_directions, headway_start_time,
\* headway_end_time); the stop times merged with the stops have no
\* direction_id to group by
compute_stations_stats(f, date, split_directions, headway_start_time, headway_end_time) ==
    LET sis == get_stops_in_stations(f)
        st  == get_stop_times(f, date)
        headway_start == timestr_to_seconds(headway_start_time)
        headway_end   == timestr_to_seconds(headway_end_time)
        parent(stop) ==
            {r.parent_station : r \in {x \in Range(sis.value.rows) :
                                         x.stop_id = stop}}
        merged == SelectSeq(st.value.rows, LAMBDA r : parent(r.stop_id) # {})
        stations == SelectSeq(StationIds,
                       LAMBDA station : \E i \in 1..Len(merged) :
                                            station \in parent(merged[i].stop_id))
        dtimes(station) ==
            LET group == SelectSeq(merged,
                            LAMBDA r : station \in parent(r.stop_id))
            IN  [i \in 1..Len(group) |->
                   timestr_to_seconds(group[i].departure_time)]
        compute_station_stats(station) ==
            LET headways == HeadwayStats(Diff(WindowTimes(dtimes(station),
                                                headway_start, headway_end)))
            IN  [parent_station |-> station,
                 num_trips  |-> Len(dtimes(station)),
                 start_time |-> seconds_to_timestr(Min(Range(dtimes(station)))),
                 end_time   |-> seconds_to_timestr(Max(Range(dtimes(station)))),
                 max_headway  |-> headways.max_headway,
                 mean_headway |-> headways.mean_headway]
    IN  IF sis.raised # "none" THEN sis
        ELSE IF IsEmpty(sis.value)
        THEN Return([columns |-> sis.value.columns, rows |-> <<>>])
        ELSE IF st.raised # "none" THEN st
        ELSE IF split_directions THEN Raise("KeyError")
        ELSE Return([columns |-> StationsStatsColumns,
                     rows |-> [i \in 1..Len(stations) |->
                                 compute_station_stats(stations[i])]])

\* the columns of the frame compute_feed_stats returns
FeedStatsColumns ==
    {"num_trips", "num_routes", "num_stops", "peak_num_trips",
     "peak_start_time", "peak_end_time", "service_distance",
     "service_duration", "service_speed"}

\* compute_feed_stats(feed, trips_stats, date); all_nan_sum is what the
\* build's pandas makes of a sum of NaN only
compute_feed_stats(f, trips_stats, date, all_nan_sum) ==
    LET trips  == get_trips(f, date, NoneTime)
        routes == get_routes(f, date, NoneTime)
        st     == get_stop_times(f, date)
        S      == {r.stop_id : r \in Range(st.value.rows)}
        merged == SelectSeq(trips_stats.rows,
                     LAMBDA r : \E t \in Range(trips.value.rows) :
                                    /\ t.trip_id = r.trip_id
                                    /\ t.route_id = r.route_id)
        g == [i \in 1..Len(merged) |->
                [merged[i] EXCEPT !.start_time = timestr_to_seconds(@),
                                  !.end_time = timestr_to_seconds(@)]]
        peak    == PeakStats(g)
        service == ServiceStats(g, all_nan_sum)
    IN  IF trips.raised # "none" THEN trips
        ELSE IF IsEmpty(trips.value)
        THEN Return([columns |-> FeedStatsColumns, rows |-> <<>>])
        ELSE IF routes.raised # "none" THEN routes
        ELSE IF st.raised # "none" THEN st
        ELSE IF f.stops.isNone THEN Raise("TypeError")
        ELSE Return([columns |-> FeedStatsColumns,
                     rows |-> <<[num_trips  |-> Len(trips.value.rows),
                                 num_routes |-> Len(routes.value.rows),
                                 num_stops  |->
                                     Len(SelectSeq(f.stops.rows,
                                            LAMBDA r : r.stop_id \in S)),
                                 peak_num_trips  |-> peak.peak_num_trips,
                                 peak_start_time |->
                                     seconds_to_timestr(peak.peak_start_time),
                                 peak_end_time   |->
                                     seconds_to_timestr(peak.peak_end_time),
                                 service_distance |-> service.service_distance,
                                 service_duration |-> service.service_duration,
                                 service_speed |->
                                     FDiv(service.service_distance,
                                          service.service_duration)]>>])

----------------------------------------------------------------------------
(* Time series.  A time series is a record [isEmpty, kind, freq, data]:    *)
(* freq is the length of a bin in seconds, data[indicator][key] the column *)
(* of an indicator and a route, stop or feed as a function of the bin      *)
(* number, from 0 on.  An empty frame has its columns only.                *)

\* the seconds of a day
DaySeconds == 24 * 3600

\* num_bins: one bin for each minute
NumBins == 24 * 60

\* the number of bins of a time series
SeriesLength(ts) == DaySeconds \div ts.freq

\* the sum of the values of the bins from first to last of a column
RECURSIVE SumBins(_, _, _)
SumBins(column, first, last) ==
    IF first > last THEN Frac(0, 1)
    ELSE IF first = last THEN column[first]
    ELSE LET middle == (first + last) \div 2
         IN  FAdd(SumBins(column, first, middle),
                  SumBins(column, middle + 1, last))

\* Series.resample(freq, how='sum') of a column, ratio bins into one
ResampleSum(column, ratio, length) ==
    [b \in 0..((length \div ratio) - 1) |->
       SumBins(column, b * ratio, (b * ratio) + ratio - 1)]

\* the mean taken as if every window had the 5 bins of the default frequency
ResampleMean_of_five(column, ratio, length) ==
    [b \in 0..((length \div ratio) - 1) |->
       FDiv(SumBins(column, b * ratio, (b * ratio) + ratio - 1), Frac(5, 1))]

\* Series.resample(freq, how='mean') of a column, ratio bins into one
ResampleMean(column, ratio, length) ==
    [b \in 0..((length \div ratio) - 1) |->
       FDiv(SumBins(column, b * ratio, (b * ratio) + ratio - 1),
            Frac(ratio, 1))]

\* time_series.resample(freq, how=how), with the speed computed anew for a
\* routes or feed time series; freq is a multiple of the frequency of the
\* series
Resampled(time_series, freq) ==
    LET ratio  == freq \div time_series.freq
        length == SeriesLength(time_series)
        how(indicator) ==
            IF time_series.kind = "stop" THEN "sum"
            ELSE IF indicator \in {"num_trip_starts", "service_distance",
                                   "service_duration"} THEN "sum"
            ELSE IF indicator = "num_trips" THEN "mean"
            ELSE "none"
        kept == {indicator \in DOMAIN time_series.data :
                   how(indicator) # "none"}
        f == [indicator \in kept |->
                [key \in DOMAIN time_series.data[indicator] |->
                   LET column == time_series.data[indicator][key]
                   IN  IF how(indicator) = "mean"
                       THEN ResampleMean(column, ratio, length)
                       ELSE ResampleSum(column, ratio, length)]]
        speed == [key \in DOMAIN f["service_distance"] |->
                    [b \in 0..((length \div ratio) - 1) |->
                       FDiv(f["service_distance"][key][b],
                            f["service_duration"][key][b])]]
    IN  [time_series EXCEPT
           !.freq = freq,
           !.data = IF time_series.kind = "stop" THEN f
                    ELSE f @@ [service_speed |-> speed]]

\* downsample without the test of the frequency: a shorter frequency gives
\* a series of that frequency, each value in the first of the bins its bin is
\* cut into
downsample_no_guard(time_series, freq) ==
    IF time_series.isEmpty THEN time_series
    ELSE IF freq < time_series.freq
    THEN LET ratio == time_series.freq \div freq
         IN  [time_series EXCEPT
                !.freq = freq,
                !.data = [indicator \in DOMAIN @ |->
                            [key \in DOMAIN @[indicator] |->
                               [b \in 0..((DaySeconds \div freq) - 1) |->
                                  IF b % ratio = 0
                                  THEN @[indicator][key][b \div ratio]
                                  ELSE NaN]]]]
    ELSE Resampled(time_series, freq)

\* downsample(time_series, freq), freq in seconds
downsample(time_series, freq) ==
    IF time_series.isEmpty \/ freq < time_series.freq THEN time_series
    ELSE Resampled(time_series, freq)

\* the columns of the empty frame compute_routes_time_series_base returns
RoutesTimeSeriesColumns ==
    {"service_distance", "service_duration", "num_trip_starts", "num_trips",
     "service_speed"}

\* F(x): the bin of a time string
BinOf(x) == (timestr_to_seconds(x) \div 60) % NumBins

\* the bins from start to end without the way round midnight
bins_to_fill_no_wrap(start, end) == start..(end - 1)

\* bins_to_fill for the bins start and end of a trip
bins_to_fill(start, end) ==
    IF start <= end THEN start..(end - 1)
    ELSE (start..(NumBins - 1)) \cup (0..(end - 1))

\* no trip is skipped
IsSkipped_never(start, end) == FALSE

\* start == end: the trip is skipped
IsSkipped(start, end) == start = end

\* compute_routes_time_series_base(trips_stats_subset, split_directions,
\* freq), freq in seconds; with split_directions the key of a column is the
\* pair of the route and the direction.  Every bin starts at 0 and only the
\* bins of a trip that is not skipped are added to.
compute_routes_time_series_base(trips_stats_subset, split_directions, freq) ==
    LET tss == [i \in 1..Len(trips_stats_subset.rows) |->
                  LET row   == trips_stats_subset.rows[i]
                      start == BinOf(row.start_time)
                      end   == BinOf(row.end_time)
                  IN  [route_id |-> IF split_directions
                                    THEN <<row.route_id, row.direction_id>>
                                    ELSE row.route_id,
                       start_index |-> start,
                       end_index |-> end,
                       bins |-> bins_to_fill(start, end),
                       weight |-> FDiv(row.distance,
                                       Frac(Cardinality(bins_to_fill(start, end)),
                                            1))]]
        routes == {tss[i].route_id : i \in 1..Len(tss)}
        \* the trips of a route that are not skipped
        binned(route) ==
            SelectSeq(tss, LAMBDA r : /\ r.route_id = route
                                      /\ ~IsSkipped(r.start_index, r.end_index))
        filling(trips, b) == SelectSeq(trips, LAMBDA r : b \in r.bins)
        \* a bin that a NaN was added to is NaN, and fillna(0) makes it 0
        distance(trips, b) ==
            LET filled == filling(trips, b)
                sum == SumBins([i \in 1..Len(filled) |-> filled[i].weight],
                               1, Len(filled))
            IN  IF IsNaN(sum) THEN Frac(0, 1) ELSE sum
        num_trip_starts(trips, b) ==
            Frac(Len(SelectSeq(trips, LAMBDA r : r.start_index = b)), 1)
        num_trips(trips, b) == Frac(Len(filling(trips, b)), 1)
        service_duration(trips, b) == Frac(Len(filling(trips, b)), 60)
        series(value(_, _)) ==
            [route \in routes |->
               LET trips == binned(route)
               IN  [b \in 0..(NumBins - 1) |->
                      IF \E i \in 1..Len(trips) : b \in trips[i].bins
                      THEN value(trips, b) ELSE Frac(0, 1)]]
    IN  IF IsEmpty(trips_stats_subset)
        THEN Return([isEmpty |-> TRUE, columns |-> RoutesTimeSeriesColumns])
        ELSE Return(downsample(
               [isEmpty |-> FALSE, kind |-> "route", freq |-> 60,
                data |-> [num_trip_starts  |-> series(num_trip_starts),
                          num_trips        |-> series(num_trips),
                          service_duration |-> series(service_duration),
                          service_distance |-> series(distance)]],
               freq))

\* compute_feed_time_series from rts, the routes time series it computes
\* first: the sum of every indicator across the routes, and the speed
compute_feed_time_series(rts) ==
    IF rts.isEmpty THEN [isEmpty |-> TRUE, columns |-> RoutesTimeSeriesColumns]
    ELSE LET routes == SetToSeq(DOMAIN rts.data.num_trips)
             total(stat) ==
                 [b \in 0..(SeriesLength(rts) - 1) |->
                    SumBins([i \in 1..Len(routes) |-> rts.data[stat][routes[i]][b]],
                            1, Len(routes))]
             f == [stat \in (DOMAIN rts.data) \ {"service_speed"} |->
                     [key \in {"feed"} |-> total(stat)]]
             speed == [key \in {"feed"} |->
                         [b \in 0..(SeriesLength(rts) - 1) |->
                            FDiv(f["service_distance"][key][b],
                                 f["service_duration"][key][b])]]
         IN  [isEmpty |-> FALSE, kind |-> "feed", freq |-> rts.freq,
              data |-> f @@ [service_speed |-> speed]]

\* compute_stops_time_series_base(stop_times, trips_subset,
\* split_directions, freq, date_label), freq in seconds: for each stop, or
\* stop and direction, the departures in each bin of the day of date_label
compute_stops_time_series_base(stop_times, trips_subset, split_directions, freq, date_label) ==
    LET trip(st) == CHOOSE t \in Range(trips_subset.rows) : t.trip_id = st.trip_id
        kept == SelectSeq(stop_times.rows,
                          LAMBDA st : \E t \in Range(trips_subset.rows) :
                                          t.trip_id = st.trip_id)
        f == [i \in 1..Len(kept) |->
                [stop_id |-> IF split_directions
                             THEN <<kept[i].stop_id, trip(kept[i]).direction_id>>
                             ELSE kept[i].stop_id,
                 departure_index |-> BinOf(kept[i].departure_time)]]
        stops == {f[i].stop_id : i \in 1..Len(f)}
        series == [stop \in stops |->
                     [b \in 0..(NumBins - 1) |->
                        Frac(Cardinality({i \in 1..Len(f) :
                                            /\ f[i].stop_id = stop
                                            /\ f[i].departure_index = b}), 1)]]
    IN  IF IsEmpty(trips_subset)
        THEN Return([isEmpty |-> TRUE, columns |-> {"num_trips"}])
        ELSE IF split_directions /\
                \E t \in Range(trips_subset.rows) : "direction_id" \notin DOMAIN t
        THEN Raise("KeyError")
        ELSE Return(downsample(
               [isEmpty |-> FALSE, kind |-> "stop", freq |-> 60,
                date_label |-> date_label,
                data |-> [num_trips |-> series]],
               freq))

\* compute_stops_time_series(feed, date, split_directions, freq): the
\* function calls itself, and not compute_stops_time_series_base, with the
\* keyword date_label that it does not have
compute_stops_time_series(f, date, split_directions, freq) ==
    LET trips == get_trips(f, date, NoneTime)
    IN  IF trips.raised # "none" THEN trips
        ELSE Raise("TypeError")

----------------------------------------------------------------------------
(* The statistics calls and their arguments *)

\* the start and departure times of the model: around both ends of the
\* default headway window
StatTimes ==
    {FormatTime(6, 59, 59), FormatTime(7, 0, 0), FormatTime(7, 15, 0),
     FormatTime(19, 0, 0), FormatTime(19, 0, 1)}

\* the headway windows: the default one and a shorter one
HeadwayWindows ==
    {<<FormatTime(7, 0, 0), FormatTime(19, 0, 0)>>,
     <<FormatTime(7, 15, 0), FormatTime(19, 0, 1)>>}

DefaultHeadwayWindow == <<FormatTime(7, 0, 0), FormatTime(19, 0, 0)>>

\* a row of trips stats; every trip of the model takes half an hour and
\* covers 10 distance units
TripStatsRow(route, direction, start_time) ==
    [route_id |-> route, direction_id |-> direction,
     start_time |-> start_time,
     end_time |-> seconds_to_timestr(timestr_to_seconds(start_time) + 1800),
     distance |-> Frac(10, 1),
     duration |-> Frac(1, 2)]

TripsStatsSubsets ==
    {DataFrame(rows) :
       rows \in SeqsUpTo({TripStatsRow(route, direction, start_time) :
                            route \in Range(RouteIds),
                            direction \in {0, 1, NaNDirection},
                            start_time \in StatTimes},
                         MaxStatRows)}

TripRow(trip, route, direction) ==
    [trip_id |-> trip, route_id |-> route, direction_id |-> direction]

\* the subsets of trips given with the stop times: two trips of one route in
\* opposite directions, of two routes in one direction, or without direction
TripsSubsets ==
    {DataFrame(<<TripRow("t1", "r1", 0), TripRow("t2", "r1", 1)>>),
     DataFrame(<<TripRow("t1", "r1", 0), TripRow("t2", "r2", 0)>>),
     DataFrame(<<TripRow("t1", "r1", NaNDirection),
                 TripRow("t2", "r1", NaNDirection)>>),
     DataFrame(<<>>)}

StopTimesSubsets ==
    {DataFrame(rows) :
       rows \in SeqsUpTo({[trip_id |-> trip, stop_id |-> stop,
                           departure_time |-> time] :
                            trip \in {"t1", "t2"}, stop \in {"A", "B"},
                            time \in StatTimes},
                         MaxStatRows)}

\* some row of the frame has a direction: grouping by direction leaves a group
HasDirection(rows) == \E i \in 1..Len(rows) : rows[i].direction_id \in {0, 1}

ComputeRoutesStatsBase ==
    /\ Idle
    /\ \E trips_stats_subset \in TripsStatsSubsets, split_directions \in BOOLEAN,
          window \in HeadwayWindows, all_nan_sum \in AllNaNSums :
           /\ (split_directions /\ ~IsEmpty(trips_stats_subset))
                 => HasDirection(trips_stats_subset.rows)
           /\ Call("compute_routes_stats_base",
                   [trips_stats_subset |-> trips_stats_subset,
                    split_directions |-> split_directions,
                    headway_start_time |-> window[1],
                    headway_end_time |-> window[2]],
                   compute_routes_stats_base(trips_stats_subset, split_directions,
                                             window[1], window[2], all_nan_sum))

ComputeStopsStatsBase ==
    /\ Idle
    /\ \E stop_times \in StopTimesSubsets, trips_subset \in TripsSubsets,
          split_directions \in BOOLEAN, window \in HeadwayWindows :
           /\ ~IsEmpty(trips_subset) =>
                 LET merged == MergeStopTimes(stop_times, trips_subset)
                 IN  /\ merged # <<>>
                     /\ split_directions => HasDirection(merged)
           /\ Call("compute_stops_stats_base",
                   [stop_times |-> stop_times,
                    trips_subset |-> trips_subset,
                    split_directions |-> split_directions,
                    headway_start_time |-> window[1],
                    headway_end_time |-> window[2]],
                   compute_stops_stats_base(stop_times, trips_subset,
                                            split_directions, window[1], window[2]))

\* a feed constructed without any table
InitStats ==
    /\ feed = Feed(NoneTable, NoneTable, NoneTable, NoneTable, NoneTable,
                   NoneTable)
    /\ op = "none"
    /\ args = <<>>
    /\ ret = Return(<<>>)

NextStats ==
    \/ ComputeRoutesStatsBase
    \/ ComputeStopsStatsBase
    \/ Done

SpecStats == InitStats /\ [][NextStats]_vars

----------------------------------------------------------------------------
(* Properties of the headway statistics, stated on the arguments and the   *)
(* result of the recorded call                                             *)

StatsCall == op \in {"compute_routes_stats_base", "compute_stops_stats_base"}

\* the members of the group of a row of the result, each with its start or
\* departure time in seconds and its direction: the trips of the route, or
\* the stop times at the stop of the trips of the subset, of the direction of
\* the row when directions are split
GroupMembers(row) ==
    IF op = "compute_routes_stats_base"
    THEN LET members ==
                 SelectSeq(args.trips_stats_subset.rows,
                    LAMBDA r : /\ r.route_id = row.route_id
                               /\ args.split_directions
                                    => r.direction_id = row.direction_id)
         IN  [i \in 1..Len(members) |->
                [time |-> timestr_to_seconds(members[i].start_time),
                 direction_id |-> members[i].direction_id]]
    ELSE LET tripOf(st) == CHOOSE t \in Range(args.trips_subset.rows) :
                              t.trip_id = st.trip_id
             members ==
                 SelectSeq(args.stop_times.rows,
                    LAMBDA st :
                      /\ st.stop_id = row.stop_id
                      /\ \E t \in Range(args.trips_subset.rows) :
                            t.trip_id = st.trip_id
                      /\ args.split_directions
                           => tripOf(st).direction_id = row.direction_id)
         IN  [i \in 1..Len(members) |->
                [time |-> timestr_to_seconds(members[i].departure_time),
                 direction_id |-> tripOf(members[i]).direction_id]]

\* the members of the group whose time lies in the headway window of the call
QualifyingMembers(row) ==
    SelectSeq(GroupMembers(row),
       LAMBDA m : /\ timestr_to_seconds(args.headway_start_time) <= m.time
                  /\ m.time <= timestr_to_seconds(args.headway_end_time))

\* max_headway, min_headway and mean_headway of the row all have the value
AllHeadways(row, value) ==
    /\ row.max_headway = value
    /\ row.min_headway = value
    /\ row.mean_headway = value

\* the distance of two times
Gap(t1, t2) == IF t1 <= t2 THEN t2 - t1 ELSE t1 - t2

\* C9, as claimed: in every route or stop group, fewer than 2 times in the
\* headway window (bounds inclusive) give NaN for max_headway, min_headway and
\* mean_headway, and exactly 2 such times t1 < t2 give (t2 - t1)/60 minutes
\* for all three.
C9_HeadwaysOfFewTimes ==
    StatsCall =>
        \A i \in 1..Len(ret.value.rows) :
            LET row == ret.value.rows[i]
                q   == QualifyingMembers(row)
            IN  /\ Len(q) < 2 => AllHeadways(row, NaN)
                /\ (Len(q) = 2 /\ q[1].time # q[2].time) =>
                       AllHeadways(row, Frac(Gap(q[1].time, q[2].time), 60))

\* the headways of the group of the row are taken within one direction: the
\* group is a stop group, or a group of one direction, or its two qualifying
\* members q have the same direction 0 or 1
WithinOneDirection(q) ==
    \/ op = "compute_stops_stats_base"
    \/ args.split_directions
    \/ q[1].direction_id = q[2].direction_id /\ q[1].direction_id \in {0, 1}

\* C9, amended: fewer than 2 times in the headway window (bounds inclusive)
\* give NaN for the three headways; exactly 2 such times t1 < t2 give
\* (t2 - t1)/60 minutes for all three in a stop group, in a group of a route
\* and a direction, and in a route group whose two qualifying trips have the
\* same direction_id 0 or 1; in a route group whose two qualifying trips have
\* different direction_id values, or none, they give NaN.
C9_HeadwaysOfFewTimesPerDirection ==
    StatsCall =>
        \A i \in 1..Len(ret.value.rows) :
            LET row == ret.value.rows[i]
                q   == QualifyingMembers(row)
            IN  /\ Len(q) < 2 => AllHeadways(row, NaN)
                /\ (Len(q) = 2 /\ q[1].time # q[2].time) =>
                       IF WithinOneDirection(q)
                       THEN AllHeadways(row,
                                        Frac(Gap(q[1].time, q[2].time), 60))
                       ELSE AllHeadways(row, NaN)

\* C9 happens: a group with two different times at the two ends of the
\* headway window, and the three headways equal to their distance in minutes
C9_Witness ==
    /\ StatsCall
    /\ \E i \in 1..Len(ret.value.rows) :
          LET row == ret.value.rows[i]
              q   == QualifyingMembers(row)
          IN  /\ Len(q) = 2
              /\ {q[1].time, q[2].time}
                   = {timestr_to_seconds(args.headway_start_time),
                      timestr_to_seconds(args.headway_end_time)}
              /\ q[1].time # q[2].time
              /\ row.max_headway # NaN
              /\ AllHeadways(row, Frac(Gap(q[1].time, q[2].time), 60))

\* the call has the default arguments of compute_routes_stats_base
DefaultRoutesStatsCall ==
    /\ op = "compute_routes_stats_base"
    /\ ~args.split_directions
    /\ <<args.headway_start_time, args.headway_end_time>> = DefaultHeadwayWindow

\* the route of the row has exactly two trips, starting at 07:00:00 and at
\* 07:15:00
TwoTripsQuarterHourApart(row) ==
    /\ Len(GroupMembers(row)) = 2
    /\ {GroupMembers(row)[1].time, GroupMembers(row)[2].time}
         = {7 * 3600, 7 * 3600 + 15 * 60}

\* C10, as claimed: with the default arguments, a route with exactly two
\* trips starting at 07:00:00 and 07:15:00 has max_headway = min_headway =
\* mean_headway = 15 minutes, whatever the direction_id of the two trips.
C10_QuarterHourHeadway ==
    DefaultRoutesStatsCall =>
        \A i \in 1..Len(ret.value.rows) :
            TwoTripsQuarterHourApart(ret.value.rows[i])
              => AllHeadways(ret.value.rows[i], Frac(15, 1))

\* C10, amended: with the default arguments, a route with exactly two trips
\* starting at 07:00:00 and 07:15:00 has max_headway = min_headway =
\* mean_headway = 15 minutes when the two trips have the same direction_id 0
\* or 1, and NaN for all three when their direction_id values differ or are
\* absent.
C10_QuarterHourHeadwayPerDirection ==
    DefaultRoutesStatsCall =>
        \A i \in 1..Len(ret.value.rows) :
            LET row == ret.value.rows[i]
                m   == GroupMembers(row)
            IN  TwoTripsQuarterHourApart(row) =>
                    IF m[1].direction_id = m[2].direction_id
                         /\ m[1].direction_id \in {0, 1}
                    THEN AllHeadways(row, Frac(15, 1))
                    ELSE AllHeadways(row, NaN)

\* C10 happens: two trips of direction 1 of a route, at 07:15:00 and at
\* 07:00:00, and headways of 15 minutes
C10_Witness ==
    /\ DefaultRoutesStatsCall
    /\ \E i \in 1..Len(ret.value.rows) :
          LET row == ret.value.rows[i]
              m   == GroupMembers(row)
          IN  /\ TwoTripsQuarterHourApart(row)
              /\ m[1].direction_id = 1 /\ m[2].direction_id = 1
              /\ m[1].time > m[2].time
              /\ AllHeadways(row, [num |-> 15, den |-> 1])

----------------------------------------------------------------------------
(* Route statistics of timetables: the trips of one route, as              *)
(* compute_trips_stats returns them                                        *)

\* the start, in minutes after midnight, and the duration, in minutes, of the
\* trips a timetable may hold in a direction: trips that overlap, that follow
\* one another at once, and that leave a gap
TimetableRuns ==
    <<<<7 * 60, 10>>, <<7 * 60, 30>>, <<(7 * 60) + 20, 10>>,
      <<(7 * 60) + 30, 10>>>>

\* the kinds of trips of a timetable by direction, start and duration, in
\* the order compute_trips_stats sorts its rows (direction_id, start_time)
NumTimetableKinds == 2 * Len(TimetableRuns)

TimetableKind(k) ==
    LET run == TimetableRuns[((k - 1) % Len(TimetableRuns)) + 1]
    IN  [direction_id |-> (k - 1) \div Len(TimetableRuns),
         start |-> run[1],
         duration |-> run[2]]

\* the sequences of n kinds, none below lo, that never decrease
RECURSIVE SortedKinds(_, _)
SortedKinds(n, lo) ==
    IF n = 0 THEN {<<>>}
    ELSE UNION {{<<k>> \o rest : rest \in SortedKinds(n - 1, k)} :
                   k \in lo..NumTimetableKinds}

\* what is known of the distances of the trips: of every trip (the feed has
\* shapes), of none (feed.shapes is None), or of the trips of direction 0
\* only (the trips of direction 1 name no shape of the feed)
DistancesKnown == {"all", "none", "direction 0"}

\* the row of trips stats of a trip of route r1: the duration in hours and,
\* where it is known, a distance of 1 unit for every 5 minutes
TimetableRow(kind, known) ==
    LET distance == IF known = "all"
                       \/ (known = "direction 0" /\ kind.direction_id = 0)
                    THEN Frac(kind.duration, 5) ELSE NaN
        duration == Frac(kind.duration, 60)
    IN  [route_id |-> "r1",
         direction_id |-> kind.direction_id,
         start_time |-> seconds_to_timestr(kind.start * 60),
         end_time |-> seconds_to_timestr((kind.start + kind.duration) * 60),
         distance |-> distance,
         duration |-> duration,
         speed |-> FDiv(distance, duration)]

Timetables ==
    {DataFrame([i \in 1..Len(kinds) |-> TimetableRow(TimetableKind(kinds[i]), known)]) :
       kinds \in UNION {SortedKinds(n, 1) : n \in 0..MaxTimetableTrips},
       known \in DistancesKnown}

ComputeRoutesStatsOfTimetable ==
    /\ Idle
    /\ \E trips_stats_subset \in Timetables, split_directions \in BOOLEAN,
          all_nan_sum \in AllNaNSums :
           Call("compute_routes_stats_base",
                [trips_stats_subset |-> trips_stats_subset,
                 split_directions |-> split_directions,
                 headway_start_time |-> DefaultHeadwayWindow[1],
                 headway_end_time |-> DefaultHeadwayWindow[2],
                 all_nan_sum |-> all_nan_sum],
                compute_routes_stats_base(trips_stats_subset, split_directions,
                                          DefaultHeadwayWindow[1],
                                          DefaultHeadwayWindow[2], all_nan_sum))

\* the times, every ten seconds from midnight on, and the counts given to
\* get_peak_indices: as many counts as times, the times increasing
PeakTimes ==
    UNION {{[i \in 1..n |-> pick[i] * 10] :
              pick \in {q \in [1..n -> 0..(MaxPeakTimes - 1)] :
                          \A i \in 1..(n - 1) : q[i] < q[i + 1]}} :
             n \in 1..MaxPeakTimes}

PeakCounts(n) == [1..n -> 0..2]

GetPeakIndices ==
    /\ Idle
    /\ \E times \in PeakTimes :
           \E counts \in PeakCounts(Len(times)) :
               Call("get_peak_indices", [times |-> times, counts |-> counts],
                    Return(get_peak_indices(times, counts)))

\* the stops tables: without station columns, with stops that have no
\* parent station, and with the stops A and B in the stations S and T
StopsTables ==
    LET row(stop, type, station) ==
            [stop_id |-> stop, location_type |-> type,
             parent_station |-> station]
        columns == {"stop_id", "stop_name", "location_type", "parent_station"}
    IN  {DataFrame(<<[stop_id |-> "A"], [stop_id |-> "B"], [stop_id |-> "C"]>>)
           @@ [columns |-> {"stop_id", "stop_name"}],
         DataFrame(<<row("A", 0, NoParent), row("B", 0, NoParent),
                     row("C", 0, NoParent)>>)
           @@ [columns |-> columns],
         DataFrame(<<row("S", 1, NoParent), row("T", 1, NoParent),
                     row("A", 0, "S"), row("B", 0, "T"),
                     row("C", 0, NoParent)>>)
           @@ [columns |-> columns]}

\* the feeds asked for their statistics: without calendar, with service s1
\* on week days, and with s2 on every day of January 2020 as well
FeedsWithStops ==
    {Feed(TripsTable, st, c, NoneTable, RoutesTable, stops) :
       st \in StopTimesTables,
       c \in {NoneTable,
              DataFrame(<<CalendarRow("s1", MonFri, 20200101, 20200131)>>),
              DataFrame(<<CalendarRow("s1", MonFri, 20200101, 20200131),
                          CalendarRow("s2", AllWeek, 20200101, 20200131)>>)},
       stops \in StopsTables}

\* the dates the statistics are asked for: a Friday and a Saturday
StatsDates == {20200103, 20200104}

\* the trips stats given with a feed: a row for each trip of the feed, the
\* trips running one after the other, all at once, or overlapping
FeedTripsStats ==
    {DataFrame([i \in 1..Len(TripsTable.rows) |->
                  [trip_id |-> TripsTable.rows[i].trip_id]
                  @@ [TimetableRow(TimetableKind(kinds[i]), known) EXCEPT
                        !.route_id = TripsTable.rows[i].route_id]]) :
       kinds \in {<<1, 3, 4>>, <<1, 1, 1>>, <<2, 3, 8>>},
       known \in DistancesKnown}

ComputeFeedStats ==
    /\ Idle
    /\ \E f \in FeedsWithStops, trips_stats \in FeedTripsStats,
          date \in StatsDates, all_nan_sum \in AllNaNSums :
           Call("compute_feed_stats",
                [feed |-> f, trips_stats |-> trips_stats, date |-> date,
                 all_nan_sum |-> all_nan_sum],
                compute_feed_stats(f, trips_stats, date, all_nan_sum))

\* the stop times of the date visit a stop of a station, or no stop is in a
\* station
ComputeStationsStats ==
    /\ Idle
    /\ \E f \in FeedsWithStops, date \in StatsDates,
          split_directions \in BOOLEAN :
           /\ LET sis == get_stops_in_stations(f)
                  st  == get_stop_times(f, date)
              IN  (sis.raised = "none" /\ ~IsEmpty(sis.value)) =>
                      \E r \in Range(st.value.rows), x \in Range(sis.value.rows) :
                          r.stop_id = x.stop_id
           /\ Call("compute_stations_stats",
                   [feed |-> f, date |-> date,
                    split_directions |-> split_directions,
                    headway_start_time |-> DefaultHeadwayWindow[1],
                    headway_end_time |-> DefaultHeadwayWindow[2]],
                   compute_stations_stats(f, date, split_directions,
                                          DefaultHeadwayWindow[1],
                                          DefaultHeadwayWindow[2]))

NextRoutes ==
    \/ ComputeRoutesStatsOfTimetable
    \/ GetPeakIndices
    \/ ComputeFeedStats
    \/ ComputeStationsStats
    \/ Done

SpecRoutes == InitStats /\ [][NextRoutes]_vars

----------------------------------------------------------------------------
(* The time series calls and their arguments *)

\* the trips a time series is made of, in the order compute_trips_stats sorts
\* its rows, each with its route, its direction, its start and end times and
\* its seconds: half a minute within one bin, ten minutes, twenty-five
\* minutes and a half overlapping them, and twenty minutes over midnight
SeriesTrips ==
    <<<<"r1", 0, FormatTime(7, 0, 0), FormatTime(7, 0, 30), 30>>,
      <<"r1", 0, FormatTime(7, 0, 0), FormatTime(7, 10, 0), 600>>,
      <<"r1", 1, FormatTime(7, 5, 30), FormatTime(7, 30, 59), 1529>>,
      <<"r2", 0, FormatTime(23, 50, 0), FormatTime(24, 10, 0), 1200>>>>

\* for which trips the distance is known
SeriesDistancesKnown == {"all", "direction 0"}

\* the row of trips stats of the k-th trip; a known distance is 1 unit for
\* every 5 minutes
SeriesRow(k, known) ==
    LET trip == SeriesTrips[k]
        distance == IF known = "all" \/ trip[2] = 0
                    THEN Frac(trip[5], 300) ELSE NaN
    IN  [route_id |-> trip[1], direction_id |-> trip[2],
         start_time |-> trip[3], end_time |-> trip[4],
         distance |-> distance, duration |-> Frac(trip[5], 3600),
         speed |-> FDiv(distance, Frac(trip[5], 3600))]

\* the increasing sequences of n trips, none below lo
RECURSIVE SeriesSubsets(_, _)
SeriesSubsets(n, lo) ==
    IF n = 0 THEN {<<>>}
    ELSE UNION {{<<k>> \o rest : rest \in SeriesSubsets(n - 1, k + 1)} :
                   k \in lo..Len(SeriesTrips)}

SeriesTripsStats ==
    {DataFrame([i \in 1..Len(kinds) |-> SeriesRow(kinds[i], known)]) :
       kinds \in UNION {SeriesSubsets(n, 1) : n \in 0..MaxSeriesTrips},
       known \in SeriesDistancesKnown}

\* the frequencies asked for, in seconds: '30S', '1Min', '5Min' and '1H'
SeriesFreqs == {30, 60, 300, 3600}

ComputeRoutesTimeSeriesBase ==
    /\ Idle
    /\ \E trips_stats_subset \in SeriesTripsStats, split_directions \in BOOLEAN,
          freq \in SeriesFreqs :
           Call("compute_routes_time_series_base",
                [trips_stats_subset |-> trips_stats_subset,
                 split_directions |-> split_directions, freq |-> freq],
                compute_routes_time_series_base(trips_stats_subset,
                                                split_directions, freq))

\* the kinds of time series given to downsample
SeriesKinds == {"route", "route and direction", "feed"}

\* the time series of a kind given to downsample: the routes time series, by
\* the minute and by five minutes, of trips in the morning and over midnight,
\* or the feed time series made of them, and the series of no trip
DownsampleInputs(kind) ==
    LET rts(n, freq) ==
            compute_routes_time_series_base(
                DataFrame(SubSeq(<<SeriesRow(2, "all"), SeriesRow(3, "all"),
                                   SeriesRow(4, "all")>>, 1, n)),
                kind = "route and direction", freq).value
    IN  {IF kind = "feed" THEN compute_feed_time_series(rts(n, freq))
         ELSE rts(n, freq) : n \in 0..3, freq \in {60, 300}}

Downsample ==
    /\ Idle
    /\ \E kind \in SeriesKinds :
          \E time_series \in DownsampleInputs(kind), freq \in SeriesFreqs :
              Call("downsample", [time_series |-> time_series, freq |-> freq],
                   Return(downsample(time_series, freq)))

\* downsample called on the result of downsample, for a time series by the
\* minute
DownsampleTwice ==
    /\ Idle
    /\ \E kind \in SeriesKinds :
          \E time_series \in {ts \in DownsampleInputs(kind) :
                                 ~ts.isEmpty /\ ts.freq = 60},
             freq1 \in SeriesFreqs, freq2 \in SeriesFreqs :
              /\ freq1 <= freq2
              /\ Call("downsample twice",
                      [time_series |-> time_series, freq1 |-> freq1,
                       freq2 |-> freq2],
                      Return(downsample(downsample(time_series, freq1), freq2)))

\* the frequencies asked of the stops time series, in seconds
StopsSeriesFreqs == {300, 3600}

\* the feeds the stops time series are asked of: those without exceptions
StopsSeriesFeeds ==
    {Feed(TripsTable, st, c, NoneTable, RoutesTable, NoneTable) :
       st \in StopTimesTables, c \in CalendarTables}

ComputeStopsTimeSeries ==
    /\ Idle
    /\ \E f \in StopsSeriesFeeds, date \in QueryDates, split_directions \in BOOLEAN :
         \E freq \in StopsSeriesFreqs :
           Call("compute_stops_time_series",
                [feed |-> f, date |-> date,
                 split_directions |-> split_directions, freq |-> freq],
                compute_stops_time_series(f, date, split_directions, freq))

NextSeries ==
    \/ ComputeRoutesTimeSeriesBase
    \/ Downsample
    \/ DownsampleTwice
    \/ ComputeStopsTimeSeries
    \/ Done

SpecSeries == InitStats /\ [][NextSeries]_vars

----------------------------------------------------------------------------
(* The Feed class of feed.py.  Its tables are objects: a state of this     *)
(* part is a record [frames, self, other], where frames maps the identity  *)
(* of every data frame in use to its contents, self is a Feed object and   *)
(* other is the copy made of it, if any.  A Feed object holds the identity *)
(* of each of its tables (0 for None) and the indices derived from them;   *)
(* the private attributes _trips_i, _calendar_i and _calendar_dates_g are  *)
(* the fields trips_i, calendar_i and calendar_dates_g.                    *)

\* constants.DIST_UNITS
DIST_UNITS == {"ft", "mi", "m", "km"}

\* Python's None as a value given for dist_units
NoneUnits == "None"

\* the tables of a Feed object that have a derived index
TableAttrs == {"trips", "calendar", "calendar_dates"}

\* the private attribute derived from a table
PrivateAttr(attr) ==
    CASE attr = "trips" -> "trips_i"
      [] attr = "calendar" -> "calendar_i"
      [] attr = "calendar_dates" -> "calendar_dates_g"

\* the frame of an identity
FrameOf(frames, ref) == IF ref = 0 THEN NoneTable ELSE frames[ref]

\* what a setter derives from the frame it is given
DerivedIndex(attr, df) ==
    CASE attr = "trips" -> SetIndex(df, "trip_id")
      [] attr = "calendar" -> SetIndex(df, "service_id")
      [] attr = "calendar_dates" -> GroupByServiceDate(df)

\* a setter that stores the table and leaves the index as it is
setter_keeps_index(object, attr, val, frames) == [object EXCEPT ![attr] = val]

\* the setters of trips, calendar and calendar_dates
setter(object, attr, val, frames) ==
    [object EXCEPT ![attr] = val,
                   ![PrivateAttr(attr)] = DerivedIndex(attr, FrameOf(frames, val))]

\* a setter of dist_units that stores whatever it is given
dist_units_setter_stores_any(object, val) ==
    [raised |-> "none", object |-> [object EXCEPT !.dist_units = val]]

\* the setter of dist_units: what it raises and the object it leaves
dist_units_setter(object, val) ==
    IF val \notin DIST_UNITS
    THEN [raised |-> "ValueError", object |-> object]
    ELSE [raised |-> "none", object |-> [object EXCEPT !.dist_units = val]]

\* a Feed object before __init__ has set anything
BlankFeed ==
    [dist_units |-> NoneUnits, trips |-> 0, calendar |-> 0, calendar_dates |-> 0,
     trips_i |-> DerivedIndex("trips", NoneTable),
     calendar_i |-> DerivedIndex("calendar", NoneTable),
     calendar_dates_g |-> DerivedIndex("calendar_dates", NoneTable)]

\* Feed.__init__(dist_units, trips, calendar, calendar_dates): what it raises
\* and the object it makes
feed_init(dist_units, trips, calendar, calendar_dates, frames) ==
    LET units == dist_units_setter(BlankFeed, dist_units)
    IN  IF units.raised # "none" THEN units
        ELSE [raised |-> "none",
              object |-> setter(setter(setter(units.object, "trips", trips, frames),
                                       "calendar", calendar, frames),
                                "calendar_dates", calendar_dates, frames)]

\* a copy that takes the tables of the feed as they are
copy_shares_tables(object, frames, last) ==
    [object |-> object, frames |-> frames]

\* Feed.copy(): the copy and the frames with the copies of the tables.  The
\* attributes are set in the order of a Python set; last[attr] tells whether
\* the private attribute or the table is set last
copy(object, frames, last) ==
    LET attrs == SetToSeq({attr \in TableAttrs : object[attr] # 0})
        new(attr) == LET i == CHOOSE k \in 1..Len(attrs) : attrs[k] = attr
                     IN  Max(DOMAIN frames \cup {0}) + i
        copies == [ref \in {new(attrs[k]) : k \in 1..Len(attrs)} |->
                     LET attr == CHOOSE a \in TableAttrs :
                                     object[a] # 0 /\ new(a) = ref
                     IN  frames[object[attr]]]
        value(attr) == IF object[attr] = 0 THEN 0 ELSE new(attr)
        index(attr) == IF last[attr] = "private" THEN object[PrivateAttr(attr)]
                       ELSE DerivedIndex(attr, FrameOf(frames, object[attr]))
    IN  [object |-> [dist_units |-> object.dist_units,
                     trips |-> value("trips"),
                     calendar |-> value("calendar"),
                     calendar_dates |-> value("calendar_dates"),
                     trips_i |-> index("trips"),
                     calendar_i |-> index("calendar"),
                     calendar_dates_g |-> index("calendar_dates")],
         frames |-> copies @@ frames]

\* helpers.almost_equal of two frames: the same rows in any order
almost_equal(f, g) ==
    /\ f.isNone = g.isNone
    /\ Len(f.rows) = Len(g.rows)
    /\ \A r \in Range(f.rows) \cup Range(g.rows) :
           Cardinality({i \in 1..Len(f.rows) : f.rows[i] = r}) =
           Cardinality({i \in 1..Len(g.rows) : g.rows[i] = r})

\* Feed.__eq__(self, other)
feed_eq(x, y, frames) ==
    /\ x.dist_units = y.dist_units
    /\ \A attr \in TableAttrs :
           IF x[attr] # 0
           THEN y[attr] # 0 /\ almost_equal(frames[x[attr]], frames[y[attr]])
           ELSE y[attr] = 0

----------------------------------------------------------------------------
(* The operations on the Feed objects of feed.py *)

\* no copy made yet
NoObject == [absent |-> TRUE]

\* the frames a caller assigns to a table
FeedTables(attr) ==
    CASE attr = "trips" -> {TripsTable, DataFrame(<<>>)}
      [] attr = "calendar" ->
           {DataFrame(<<CalendarRow("s1", MonFri, 20200101, 20200131),
                        CalendarRow("s2", AllWeek, 20200104, 20200106)>>),
            DataFrame(<<>>)}
      [] attr = "calendar_dates" ->
           {DataFrame(<<[service_id |-> "s1", date |-> 20200104,
                         exception_type |-> 1]>>),
            DataFrame(<<>>)}

\* the values a caller gives for dist_units
UnitsValues == {"km", "mi", "furlong", NoneUnits}

\* the tables a caller modifies in place
ModifiedAttrs == {"trips", "calendar"}

\* a modification in place: calendar['monday'] = 0, trips['service_id'] = 's2'
ModifiedInPlace(attr, df) ==
    DataFrame([i \in 1..Len(df.rows) |->
                 IF attr = "calendar" THEN [df.rows[i] EXCEPT !.monday = 0]
                 ELSE [df.rows[i] EXCEPT !.service_id = "s2"]])

\* the Feed objects there are
Objects(f) == IF f.other = NoObject THEN {"self"} ELSE {"self", "other"}

ObjectOf(f, obj) == IF obj = "self" THEN f.self ELSE f.other

WithObject(f, obj, object) ==
    IF obj = "self" THEN [f EXCEPT !.self = object]
    ELSE [f EXCEPT !.other = object]

\* the tables and indices of a Feed object, as values
View(object, frames) ==
    [dist_units       |-> object.dist_units,
     trips            |-> FrameOf(frames, object.trips),
     calendar         |-> FrameOf(frames, object.calendar),
     calendar_dates   |-> FrameOf(frames, object.calendar_dates),
     trips_i          |-> object.trips_i,
     calendar_i       |-> object.calendar_i,
     calendar_dates_g |-> object.calendar_dates_g]

\* the same objects with the frames that are still in use, each frame named
\* after its holders: the identity of a frame is all that a name stands for
Normalize(f) ==
    LET base(attr) == CASE attr = "trips" -> 0
                         [] attr = "calendar" -> 2
                         [] attr = "calendar_dates" -> 4
        hasOther == f.other # NoObject
        selfName(attr) == IF f.self[attr] = 0 THEN 0 ELSE base(attr) + 1
        otherName(attr) ==
            IF ~hasOther THEN 0
            ELSE IF f.other[attr] = 0 THEN 0
            ELSE IF f.other[attr] = f.self[attr] THEN base(attr) + 1
            ELSE base(attr) + 2
        names == {selfName(attr) : attr \in TableAttrs} \cup
                 {otherName(attr) : attr \in TableAttrs}
        old(n) == IF \E attr \in TableAttrs : selfName(attr) = n
                  THEN f.self[CHOOSE attr \in TableAttrs : selfName(attr) = n]
                  ELSE f.other[CHOOSE attr \in TableAttrs : otherName(attr) = n]
    IN  [frames |-> [n \in names \ {0} |-> f.frames[old(n)]],
         self   |-> [f.self EXCEPT !.trips = selfName("trips"),
                                   !.calendar = selfName("calendar"),
                                   !.calendar_dates = selfName("calendar_dates")],
         other  |-> IF ~hasOther THEN NoObject
                    ELSE [f.other EXCEPT !.trips = otherName("trips"),
                                         !.calendar = otherName("calendar"),
                                         !.calendar_dates =
                                             otherName("calendar_dates")],
         steps  |-> f.steps]

\* an operation that changes the Feed objects
Operation(name, arguments, result, f) ==
    /\ Idle
    /\ feed.steps < MaxFeedSteps
    /\ op' = name
    /\ args' = arguments
    /\ ret' = result
    /\ feed' = Normalize([f EXCEPT !.steps = feed.steps + 1])

\* an identity for a new frame
NewRef(frames) == Max(DOMAIN frames \cup {0}) + 1

\* feed.trips = val, feed.calendar = val, feed.calendar_dates = val: val is
\* None, the table the feed has, or a new frame
SetTable ==
    \E obj \in Objects(feed), attr \in TableAttrs :
      \E how \in {"None", "same", "new"}, df \in FeedTables(attr) :
        LET object == ObjectOf(feed, obj)
            val == CASE how = "None" -> 0
                     [] how = "same" -> object[attr]
                     [] how = "new" -> NewRef(feed.frames)
            frames == IF how = "new" THEN (val :> df) @@ feed.frames
                      ELSE feed.frames
        IN  Operation("setattr",
                      [object |-> obj, attr |-> attr, how |-> how,
                       val |-> FrameOf(frames, val)],
                      Return(<<>>),
                      WithObject([feed EXCEPT !.frames = frames], obj,
                                 setter(object, attr, val, frames)))

\* feed.calendar['monday'] = 0 and the like, without an assignment
ModifyInPlace ==
    \E obj \in Objects(feed), attr \in ModifiedAttrs :
      LET ref == ObjectOf(feed, obj)[attr]
      IN  /\ ref # 0
          /\ ~IsEmpty(feed.frames[ref])
          /\ Operation("modify in place", [object |-> obj, attr |-> attr],
                       Return(<<>>),
                       [feed EXCEPT !.frames[ref] = ModifiedInPlace(attr, @)])

\* feed.dist_units = val
SetDistUnits ==
    \E obj \in Objects(feed), val \in UnitsValues :
      LET result == dist_units_setter(ObjectOf(feed, obj), val)
      IN  Operation("dist_units", [object |-> obj, val |-> val],
                    IF result.raised = "none" THEN Return(<<>>)
                    ELSE Raise(result.raised),
                    WithObject(feed, obj, result.object))

\* feed = Feed(dist_units, trips=trips): the name feed is bound to the new
\* object unless the constructor raises
Construct ==
    /\ Idle
    /\ \E dist_units \in UnitsValues, trips \in {NoneTable} \cup FeedTables("trips") :
      LET val == IF trips.isNone THEN 0 ELSE NewRef(feed.frames)
          frames == IF trips.isNone THEN feed.frames
                    ELSE (val :> trips) @@ feed.frames
          result == feed_init(dist_units, val, 0, 0, frames)
      IN  Operation("Feed", [dist_units |-> dist_units, trips |-> trips],
                    IF result.raised = "none" THEN Return(<<>>)
                    ELSE Raise(result.raised),
                    IF result.raised = "none"
                    THEN [feed EXCEPT !.frames = frames, !.self = result.object]
                    ELSE feed)

\* other = feed.copy()
Copy ==
    /\ Idle
    /\ \E last \in [TableAttrs -> {"private", "table"}] :
      LET result == copy(feed.self, feed.frames, last)
      IN  Operation("copy", [last |-> last], Return(<<>>),
                    [feed EXCEPT !.frames = result.frames,
                                 !.other = result.object])

InitFeed ==
    /\ feed = [frames |-> <<>>,
               self   |-> feed_init("km", 0, 0, 0, <<>>).object,
               other  |-> NoObject,
               steps  |-> 0]
    /\ op = "none"
    /\ args = <<>>
    /\ ret = Return(<<>>)

NextFeed ==
    \/ SetTable
    \/ ModifyInPlace
    \/ SetDistUnits
    \/ Construct
    \/ Copy
    \/ Done

SpecFeed == InitFeed /\ [][NextFeed]_vars

----------------------------------------------------------------------------
(* Properties of the route statistics, stated on the arguments and the     *)
(* result of the recorded call                                             *)

RoutesStatsCall == op = "compute_routes_stats_base"

\* a call that reports a peak of trips in service
PeakCall == op \in {"compute_routes_stats_base", "compute_feed_stats"}

\* the trips of the group of a row of route stats, or the trips of the trips
\* stats that are active on the date of the feed stats
TripsOfRow(row) ==
    IF op = "compute_feed_stats"
    THEN SelectSeq(args.trips_stats.rows,
            LAMBDA r : is_active_trip(args.feed, r.trip_id, args.date))
    ELSE SelectSeq(args.trips_stats_subset.rows,
            LAMBDA r : /\ r.route_id = row.route_id
                       /\ args.split_directions
                            => r.direction_id = row.direction_id)

\* the start times, in seconds and in order, of the trips of a direction of
\* the group of a row that start within the headway window
DirectionStarts(row, direction) ==
    LET trips == SelectSeq(TripsOfRow(row),
                    LAMBDA r : r.direction_id = direction)
        starts == [i \in 1..Len(trips) |-> timestr_to_seconds(trips[i].start_time)]
    IN  Sorted(SelectSeq(starts,
                  LAMBDA t : /\ timestr_to_seconds(args.headway_start_time) <= t
                             /\ t <= timestr_to_seconds(args.headway_end_time)))

\* the mean, in minutes, of the differences of consecutive times in seconds
MeanHeadwayOf(times) ==
    Frac(times[Len(times)] - times[1], 60 * (Len(times) - 1))

\* the greatest, in minutes, of the differences of consecutive times
MaxHeadwayOf(times) ==
    Frac(Max({times[i + 1] - times[i] : i \in 1..(Len(times) - 1)}), 60)

\* the mean of the mean headways of the directions with a headway, each
\* weighted by weight[direction]
WeightedMeanHeadway(row, weight) ==
    LET dirs  == {d \in {0, 1} : Len(DirectionStarts(row, d)) >= 2}
        term(d) == IF d \in dirs
                   THEN FMul(Frac(weight[d], 1),
                             MeanHeadwayOf(DirectionStarts(row, d)))
                   ELSE Frac(0, 1)
        total == SumSeq([i \in 1..2 |-> IF (i - 1) \in dirs
                                        THEN weight[i - 1] ELSE 0])
    IN  FDiv(FAdd(term(0), term(1)), Frac(total, 1))

\* the greater of the greatest headways of the directions with a headway
GreatestHeadway(row) ==
    LET dirs == {d \in {0, 1} : Len(DirectionStarts(row, d)) >= 2}
        best == CHOOSE d \in dirs :
                    \A e \in dirs : FLeq(MaxHeadwayOf(DirectionStarts(row, e)),
                                         MaxHeadwayOf(DirectionStarts(row, d)))
    IN  MaxHeadwayOf(DirectionStarts(row, best))

\* C11, as claimed: with split_directions disabled, the mean_headway of a
\* route with headways in both directions is the mean of the mean headways of
\* direction 0 and of direction 1 weighted by the numbers of trips of the
\* two directions, and its max_headway is the greater of the greatest
\* headways of the two directions.
C11_TripCountWeightedMeanHeadway ==
    (RoutesStatsCall /\ ~args.split_directions) =>
        \A i \in 1..Len(ret.value.rows) :
            LET row == ret.value.rows[i]
                n   == [d \in {0, 1} |-> Len(DirectionStarts(row, d))]
            IN  (n[0] >= 2 /\ n[1] >= 2) =>
                    /\ row.mean_headway = WeightedMeanHeadway(row, n)
                    /\ row.max_headway = GreatestHeadway(row)

\* C11, amended: with split_directions disabled, the mean_headway of a route
\* is the mean of the mean headways of the directions that have a headway,
\* each weighted by its number of headways (one less than its number of
\* trips that start within the window), which is the mean of the headways of
\* direction 0 and of direction 1 taken together; its max_headway is the
\* greater of the greatest headways of the directions.
C11_HeadwayCountWeightedMeanHeadway ==
    (RoutesStatsCall /\ ~args.split_directions) =>
        \A i \in 1..Len(ret.value.rows) :
            LET row == ret.value.rows[i]
                n   == [d \in {0, 1} |-> Len(DirectionStarts(row, d))]
            IN  (n[0] >= 2 \/ n[1] >= 2) =>
                    /\ row.mean_headway =
                         WeightedMeanHeadway(row, [d \in {0, 1} |-> n[d] - 1])
                    /\ row.max_headway = GreatestHeadway(row)

\* C11 happens: a route with two trips in direction 0 and three in direction
\* 1 whose mean headways differ, and a mean_headway that is not the mean
\* weighted by the numbers of trips
C11_Witness ==
    /\ RoutesStatsCall /\ ~args.split_directions
    /\ \E i \in 1..Len(ret.value.rows) :
          LET row == ret.value.rows[i]
              n   == [d \in {0, 1} |-> Len(DirectionStarts(row, d))]
          IN  /\ n[0] = 2 /\ n[1] = 3
              /\ MeanHeadwayOf(DirectionStarts(row, 0))
                   # MeanHeadwayOf(DirectionStarts(row, 1))
              /\ row.mean_headway # WeightedMeanHeadway(row, n)
              /\ ~IsNaN(row.mean_headway)

\* the start and end of the trips of the group of a row, in seconds
SpansOfRow(row) ==
    LET trips == TripsOfRow(row)
    IN  [i \in 1..Len(trips) |->
           [start |-> timestr_to_seconds(trips[i].start_time),
            end   |-> timestr_to_seconds(trips[i].end_time)]]

\* the times at which the trips of the group of a row start or end
SampledTimes(row) ==
    {SpansOfRow(row)[i].start : i \in 1..Len(SpansOfRow(row))}
    \cup {SpansOfRow(row)[i].end : i \in 1..Len(SpansOfRow(row))}

\* the number of trips of the group of a row in service at time t
InService(row, t) ==
    Cardinality({i \in 1..Len(SpansOfRow(row)) :
                   SpansOfRow(row)[i].start <= t /\ t < SpansOfRow(row)[i].end})

\* C12: for every route group, and for the trips of the feed active on the
\* date in compute_feed_stats, peak_num_trips is the greatest, over the
\* distinct start and end times t of the trips of the group, of the number
\* of trips with start_time <= t < end_time.
C12_PeakNumTrips ==
    (PeakCall /\ ret.raised = "none") =>
        \A i \in 1..Len(ret.value.rows) :
            LET row == ret.value.rows[i]
            IN  /\ \E t \in SampledTimes(row) :
                       row.peak_num_trips = InService(row, t)
                /\ \A t \in SampledTimes(row) :
                       InService(row, t) <= row.peak_num_trips

\* C12 happens: a group of three trips, one of them ending when another
\* starts, of which two at most are in service at once
C12_Witness ==
    /\ RoutesStatsCall
    /\ \E i \in 1..Len(ret.value.rows) :
          LET row   == ret.value.rows[i]
              spans == SpansOfRow(row)
          IN  /\ Len(spans) = 3
              /\ row.peak_num_trips = 2
              /\ \E j, k \in 1..3 : spans[j].end = spans[k].start
              /\ \E t \in SampledTimes(row) :
                     Cardinality({j \in 1..3 : spans[j].start <= t
                                               /\ t <= spans[j].end}) = 3

\* the sampled times from a to b are a run of the peak of a row: each has
\* the peak number of trips in service, the sampled time before a and the one
\* after b have not
IsPeakRun(row, a, b) ==
    LET sampled == SampledTimes(row)
        before  == {t \in sampled : t < a}
        after   == {t \in sampled : t > b}
    IN  /\ a \in sampled /\ b \in sampled /\ a <= b
        /\ \A t \in sampled :
               (a <= t /\ t <= b) => InService(row, t) = row.peak_num_trips
        /\ before # {} => InService(row, Max(before)) # row.peak_num_trips
        /\ after # {} => InService(row, Min(after)) # row.peak_num_trips

\* C13: the peak window (peak_start_time, peak_end_time) of a route group,
\* or of the feed on a date, is
\* the first longest contiguous run of sampled times at which the number of
\* trips in service is the peak number; and for the counts [1,2,2,1] at the
\* times [0,10,20,30] get_peak_indices gives the peak 2 and the window
\* (10, 20).
C13_PeakWindowIsFirstLongestRun ==
    /\ (PeakCall /\ ret.raised = "none") =>
         \A i \in 1..Len(ret.value.rows) :
             LET row == ret.value.rows[i]
                 ps  == timestr_to_seconds(row.peak_start_time)
                 pe  == timestr_to_seconds(row.peak_end_time)
             IN  /\ IsPeakRun(row, ps, pe)
                 /\ \A a, b \in SampledTimes(row) :
                        IsPeakRun(row, a, b) =>
                            \/ b - a < pe - ps
                            \/ b - a = pe - ps /\ ps <= a
    /\ (op = "get_peak_indices" /\ args.times = <<0, 10, 20, 30>>
          /\ args.counts = <<1, 2, 2, 1>>) =>
         /\ args.counts[ret.value[1]] = 2
         /\ <<args.times[ret.value[1]], args.times[ret.value[2]]>> = <<10, 20>>

\* C13 happens: a group with two runs of its peak, the second one the longer
\* and the one reported
C13_Witness ==
    /\ RoutesStatsCall
    /\ \E i \in 1..Len(ret.value.rows) :
          LET row == ret.value.rows[i]
              ps  == timestr_to_seconds(row.peak_start_time)
              pe  == timestr_to_seconds(row.peak_end_time)
          IN  /\ ps < pe
              /\ \E a \in SampledTimes(row) : a < ps /\ IsPeakRun(row, a, a)

\* C15: an undefined distance stays undefined and never becomes zero: a trip
\* with a NaN distance has a NaN speed, and a route group all of whose trips
\* have a NaN distance has NaN service_distance, service_speed and
\* mean_trip_distance.
C15_UndefinedDistancePropagates ==
    RoutesStatsCall =>
        /\ \A r \in Range(args.trips_stats_subset.rows) :
               IsNaN(r.distance) => IsNaN(r.speed)
        /\ \A i \in 1..Len(ret.value.rows) :
               LET row == ret.value.rows[i]
               IN  (\A r \in Range(TripsOfRow(row)) : IsNaN(r.distance)) =>
                       /\ IsNaN(row.service_distance)
                       /\ IsNaN(row.service_speed)
                       /\ IsNaN(row.mean_trip_distance)

----------------------------------------------------------------------------
(* Properties of the empty results and of the time series                  *)

\* the recorded call is one of an aggregation function on an empty input: no
\* trips, no trip active on the date, or a stops table with the station
\* columns and no stop in a station
EmptyInputCall ==
    \/ /\ op \in {"compute_routes_stats_base", "compute_routes_time_series_base"}
       /\ IsEmpty(args.trips_stats_subset)
    \/ /\ op = "compute_stops_stats_base"
       /\ IsEmpty(args.trips_subset)
    \/ /\ op = "compute_feed_stats"
       /\ LET trips == get_trips(args.feed, args.date, NoneTime)
          IN  trips.raised = "none" /\ IsEmpty(trips.value)
    \/ /\ op = "compute_stations_stats"
       /\ LET sis == get_stops_in_stations(args.feed)
          IN  sis.raised = "none" /\ IsEmpty(sis.value)

\* the sets of columns the documentation of the function of the recorded call
\* allows for its result; the stations stats are the stops stats with
\* parent_station for stop_id
DocumentedColumns ==
    CASE op = "compute_routes_stats_base" ->
             {RoutesStatsColumns(args.split_directions)}
      [] op = "compute_stops_stats_base" ->
             {StopsStatsColumns(args.split_directions)}
      [] op = "compute_stations_stats" ->
             {StationsStatsColumns,
              StationsStatsColumns \cup {"direction_id"}}
      [] op = "compute_feed_stats" -> {FeedStatsColumns}
      [] op = "compute_routes_time_series_base" -> {RoutesTimeSeriesColumns}

\* C14: every aggregation function (compute_routes_stats_base,
\* compute_stops_stats_base, compute_stations_stats, compute_feed_stats,
\* compute_routes_time_series_base), given an empty input, returns an empty
\* table with the columns documented for its result, for both values of
\* split_directions.
C14_EmptyInputGivesDocumentedColumns ==
    EmptyInputCall =>
        /\ ret.raised = "none"
        /\ IF op = "compute_routes_time_series_base"
           THEN ret.value.isEmpty
           ELSE ret.value.rows = <<>>
        /\ ret.value.columns \in DocumentedColumns

\* the recorded call is one of compute_routes_time_series_base with trips
SeriesCall ==
    op = "compute_routes_time_series_base" /\ ~IsEmpty(args.trips_stats_subset)

\* ... and asks for the series by the minute
MinuteSeriesCall == SeriesCall /\ args.freq = 60

\* the column of a trip: its route, or its route and direction
KeyOf(r) ==
    IF args.split_directions THEN <<r.route_id, r.direction_id>> ELSE r.route_id

\* s and e of a trip
StartBin(r) == (timestr_to_seconds(r.start_time) \div 60) % NumBins

EndBin(r) == (timestr_to_seconds(r.end_time) \div 60) % NumBins

\* b is in the fill set of a trip: [s, e) when s <= e, [s, 1440) and [0, e)
\* when s > e
InFillSet(r, b) ==
    IF StartBin(r) <= EndBin(r)
    THEN StartBin(r) <= b /\ b < EndBin(r)
    ELSE StartBin(r) <= b \/ b < EndBin(r)

\* the trips of a column with s # e
SeriesTripsOf(key) ==
    SelectSeq(args.trips_stats_subset.rows,
        LAMBDA r : KeyOf(r) = key /\ StartBin(r) # EndBin(r))

\* C16: in the series by the minute, num_trips of bin b of a route is the
\* number of the trips of the route with s # e whose fill set contains b,
\* and service_duration of the bin is 1/60 for each of these trips.
C16_NumTripsCountsFillSets ==
    MinuteSeriesCall =>
        /\ DOMAIN ret.value.data.num_trips =
               {KeyOf(r) : r \in Range(args.trips_stats_subset.rows)}
        /\ \A key \in DOMAIN ret.value.data.num_trips :
               \A b \in 0..(NumBins - 1) :
                   LET n == Len(SelectSeq(SeriesTripsOf(key),
                                   LAMBDA r : InFillSet(r, b)))
                   IN  /\ ret.value.data.num_trips[key][b] = Frac(n, 1)
                       /\ ret.value.data.service_duration[key][b] = Frac(n, 60)

\* C16 happens: a trip over midnight fills the last bin of the day and the
\* first one
C16_Witness ==
    /\ MinuteSeriesCall
    /\ \E key \in DOMAIN ret.value.data.num_trips :
          /\ ret.value.data.num_trips[key][NumBins - 1] = Frac(1, 1)
          /\ ret.value.data.num_trips[key][0] = Frac(1, 1)
          /\ ret.value.data.service_duration[key][0] = Frac(1, 60)

\* the trips of the recorded call without those whose start bin is their end
\* bin
WithoutSkipped ==
    DataFrame(SelectSeq(args.trips_stats_subset.rows,
                  LAMBDA r : StartBin(r) # EndBin(r)))

\* a column of a route without trips: no speed, and 0 for the rest
ColumnOfNoTrips(indicator) ==
    [b \in 0..(NumBins - 1) |->
       IF indicator = "service_speed" THEN NaN ELSE Frac(0, 1)]

DaySum(indicator, key) ==
    SumBins(ret.value.data[indicator][key], 0, SeriesLength(ret.value) - 1)

\* the trips of a route in the trips stats of the recorded call
TripsOfRoute(route) ==
    SelectSeq(args.trips_stats_subset.rows, LAMBDA r : r.route_id = route)

\* C18: without split_directions and for every frequency, the sum over the
\* day of the service_distance series of a route is the sum of the distances
\* of all the trips of the route in the trips stats (the sum pandas gives,
\* which skips the undefined distances).
C18_DistanceSeriesSumsToTripDistances ==
    (SeriesCall /\ ~args.split_directions) =>
        \A route \in DOMAIN ret.value.data.service_distance :
            LET trips == TripsOfRoute(route)
                distances == [i \in 1..Len(trips) |-> trips[i].distance]
            IN  \E all_nan_sum \in AllNaNSums :
                    DaySum("service_distance", route) =
                        SeriesSum(distances, all_nan_sum)

\* the route stats of the trips of the recorded call, without split_directions
RouteStatsOfSeriesTrips ==
    compute_routes_stats_base(args.trips_stats_subset, FALSE,
                              DefaultHeadwayWindow[1], DefaultHeadwayWindow[2],
                              NaN).value.rows

\* C19: without split_directions, the sum over the day of the
\* num_trip_starts series of a route is num_trips of the route in the route
\* stats computed from the same trips.
C19_TripStartsSumToNumTrips ==
    (SeriesCall /\ ~args.split_directions) =>
        \A i \in 1..Len(RouteStatsOfSeriesTrips) :
            LET row == RouteStatsOfSeriesTrips[i]
            IN  DaySum("num_trip_starts", row.route_id) = Frac(row.num_trips, 1)

\* C20: downsample returns the series it is given, unchanged, when freq is
\* finer than the frequency of the series or the series is empty, and the
\* series it returns is never of a finer frequency than the one it is given.
C20_DownsampleNeverRefines ==
    op = "downsample" =>
        /\ ret.raised = "none"
        /\ (args.time_series.isEmpty \/ args.freq < args.time_series.freq) =>
               ret.value = args.time_series
        /\ ~args.time_series.isEmpty =>
               /\ ~ret.value.isEmpty
               /\ ret.value.freq >= args.time_series.freq

\* C20 happens: a series by five minutes with a trip in it is asked for by
\* the minute and comes back as it is
C20_Witness ==
    /\ op = "downsample"
    /\ ~args.time_series.isEmpty
    /\ args.time_series.freq = 300 /\ args.freq = 60
    /\ \E key \in DOMAIN args.time_series.data.num_trips :
          \E b \in 0..(SeriesLength(args.time_series) - 1) :
              args.time_series.data.num_trips[key][b] # Frac(0, 1)
    /\ ret.value = args.time_series

\* the recorded call is one of downsample to a coarser frequency
CoarserDownsampleCall ==
    /\ op = "downsample"
    /\ ~args.time_series.isEmpty
    /\ args.freq > args.time_series.freq

\* the sum of the values that a column of the series given to downsample has
\* in the window w of the frequency asked for
WindowSum(indicator, key, w) ==
    LET ratio == args.freq \div args.time_series.freq
    IN  SumBins(args.time_series.data[indicator][key],
                w * ratio, (w * ratio) + ratio - 1)

\* C21: after downsampling a route or feed time series to a coarser
\* frequency, in every window num_trip_starts, service_duration and
\* service_distance are the sums of the values of the window, num_trips is
\* their mean, and service_speed is the summed service_distance divided by
\* the summed service_duration.
C21_DownsampleSumsAndMeans ==
    CoarserDownsampleCall =>
        /\ ret.value.freq = args.freq
        /\ \A key \in DOMAIN args.time_series.data.num_trips :
               \A w \in 0..((DaySeconds \div args.freq) - 1) :
                   /\ \A indicator \in {"num_trip_starts", "service_duration",
                                         "service_distance"} :
                          ret.value.data[indicator][key][w] =
                              WindowSum(indicator, key, w)
                   /\ ret.value.data.num_trips[key][w] =
                          FDiv(WindowSum("num_trips", key, w),
                               Frac(args.freq \div args.time_series.freq, 1))
                   /\ ret.value.data.service_speed[key][w] =
                          FDiv(WindowSum("service_distance", key, w),
                               WindowSum("service_duration", key, w))

\* C21 happens: a window whose mean of trips in service is not their sum
\* and whose speed is not the speed of its first bin
C21_Witness ==
    /\ CoarserDownsampleCall
    /\ \E key \in DOMAIN args.time_series.data.num_trips :
          \E w \in 0..((DaySeconds \div args.freq) - 1) :
              LET first == w * (args.freq \div args.time_series.freq)
              IN  /\ ret.value.data.num_trips[key][w] #
                         WindowSum("num_trips", key, w)
                  /\ ~IsNaN(ret.value.data.service_speed[key][w])
                  /\ ~IsNaN(args.time_series.data.service_speed[key][first])
                  /\ ret.value.data.service_speed[key][w] #
                         args.time_series.data.service_speed[key][first]

\* C29: for a time series by the minute, downsampling to a frequency and
\* then to a coarser one that is a multiple of it gives the series that
\* downsampling to the coarser frequency gives at once, in every indicator
\* and every window.
C29_DownsampleComposes ==
    (/\ op = "downsample twice"
     /\ args.freq1 < args.freq2
     /\ args.freq2 % args.freq1 = 0) =>
        ret.value = downsample(args.time_series, args.freq2)

\* C29 happens: a series is downsampled to five minutes and then to the hour,
\* and an hour has trips in service
C29_Witness ==
    /\ op = "downsample twice"
    /\ args.freq1 = 300 /\ args.freq2 = 3600
    /\ ret.value.freq = 3600
    /\ \E key \in DOMAIN ret.value.data.num_trips :
          \E w \in 0..(SeriesLength(ret.value) - 1) :
              /\ ret.value.data.num_trips[key][w] # Frac(0, 1)
              /\ ~IsNaN(ret.value.data.service_speed[key][w])

----------------------------------------------------------------------------
(* The distances of the Feed class of calculator.py.  A table is a record  *)
(* [isNone, hasDist, dist]: dist holds its shape_dist_traveled column when *)
(* hasDist.  The state holds the caller's stop_times and shapes frames,    *)
(* which the feeds constructed from them refer to, and for each feed       *)
(* constructed the units and the distances it had when it was made.        *)

\* utils.DISTANCE_UNITS
DISTANCE_UNITS == {"ft", "m", "mi", "km"}

\* the length of a unit in metres
Metres(unit) ==
    CASE unit = "ft" -> Frac(3048, 10000)
      [] unit = "m" -> Frac(1, 1)
      [] unit = "mi" -> Frac(1609344, 1000)
      [] unit = "km" -> Frac(1000, 1)

\* utils.get_convert_dist(dist_units_in, dist_units_out), applied to x
get_convert_dist(dist_units_in, dist_units_out, x) ==
    FDiv(FMul(x, Metres(dist_units_in)), Metres(dist_units_out))

\* a frame without the column shape_dist_traveled
NoDistFrame == [isNone |-> FALSE, hasDist |-> FALSE, dist |-> <<>>]

\* a frame with the column shape_dist_traveled
DistFrame(dist) == [isNone |-> FALSE, hasDist |-> TRUE, dist |-> dist]

\* no frame
NoFrame == [isNone |-> TRUE, hasDist |-> FALSE, dist |-> <<>>]

\* the column shape_dist_traveled of the frame after
\* df['shape_dist_traveled'] = df['shape_dist_traveled'].map(convert_dist)
converted(df, dist_units_in, dist_units_out) ==
    IF ~df.isNone /\ df.hasDist
    THEN DistFrame([i \in 1..Len(df.dist) |->
                      get_convert_dist(dist_units_in, dist_units_out, df.dist[i])])
    ELSE df

\* Feed.__init__ of calculator.py as far as distances go: what it raises, the
\* units it stores, and the stop_times and shapes frames given to it as they
\* are when it returns
feed_units(stop_times, shapes, dist_units_in, dist_units_out) ==
    LET unchanged == [dist_units_in |-> dist_units_in,
                      dist_units_out |-> dist_units_out,
                      stop_times |-> stop_times, shapes |-> shapes]
        units_in == IF dist_units_in = NoneUnits THEN "km" ELSE dist_units_in
        units_out == IF dist_units_out = NoneUnits THEN units_in
                     ELSE dist_units_out
    IN  IF /\ (~stop_times.isNone /\ stop_times.hasDist) \/
              (~shapes.isNone /\ shapes.hasDist)
           /\ dist_units_in = NoneUnits
        THEN [raised |-> "ValueError"] @@ unchanged
        ELSE IF \E du \in {dist_units_in, dist_units_out} :
                   du # NoneUnits /\ du \notin DISTANCE_UNITS
        THEN [raised |-> "ValueError"] @@ unchanged
        ELSE [raised |-> "none",
              dist_units_in |-> units_in,
              dist_units_out |-> units_out,
              stop_times |-> converted(stop_times, units_in, units_out),
              shapes |-> converted(shapes, units_in, units_out)]

\* the units the caller gives
UnitsGiven == {"km", "m", "furlong", NoneUnits}

\* the frames the caller has
CallerFrames ==
    {NoFrame, NoDistFrame,
     DistFrame(<<Frac(0, 1), Frac(1, 2), Frac(2, 1)>>),
     DistFrame(<<Frac(0, 1), NaN>>)}

\* Feed(stop_times=stop_times, shapes=shapes, dist_units_in=...,
\* dist_units_out=...) with the frames the caller has
ConstructFeed ==
    /\ Idle
    /\ Len(feed.constructed) < MaxConstructions
    /\ \E dist_units_in \in UnitsGiven, dist_units_out \in UnitsGiven :
         LET result == feed_units(feed.stop_times, feed.shapes,
                                  dist_units_in, dist_units_out)
         IN  /\ op' = "Feed"
             /\ args' = [stop_times |-> feed.stop_times, shapes |-> feed.shapes,
                         dist_units_in |-> dist_units_in,
                         dist_units_out |-> dist_units_out]
             /\ ret' = IF result.raised = "none" THEN Return(<<>>)
                       ELSE Raise(result.raised)
             /\ feed' = [stop_times |-> result.stop_times,
                         shapes |-> result.shapes,
                         constructed |->
                           IF result.raised = "none"
                           THEN Append(feed.constructed,
                                       [given |-> args',
                                        stop_times |-> result.stop_times,
                                        shapes |-> result.shapes])
                           ELSE feed.constructed]

InitUnits ==
    /\ \E stop_times \in CallerFrames, shapes \in CallerFrames :
         feed = [stop_times |-> stop_times, shapes |-> shapes,
                 constructed |-> <<>>]
    /\ op = "none"
    /\ args = <<>>
    /\ ret = Return(<<>>)

NextUnits ==
    \/ ConstructFeed
    \/ Done

SpecUnits == InitUnits /\ [][NextUnits]_vars

----------------------------------------------------------------------------
(* The trips stats.  The geometry comes from Shapely: geometry_by_shape     *)
(* gives for a shape of the feed whether its line is simple, its length    *)
(* and the place along the line that each stop projects to, in metres.     *)

\* the rows of a trip in f, which is sorted by trip_id and stop_sequence
TripGroup(stop_times, trip) ==
    LET rows == SelectSeq(stop_times, LAMBDA r : r.trip_id = trip)
        before(r) == {i \in 1..Len(rows) : rows[i].stop_sequence < r.stop_sequence}
    IN  [k \in 1..Len(rows) |->
           CHOOSE r \in Range(rows) : Cardinality(before(r)) = k - 1]

\* Series.max() of distances: the greatest that is not NaN, NaN if none is
MaxSkipNaN(values) ==
    LET known == {v \in values : ~IsNaN(v)}
    IN  IF known = {} THEN NaN
        ELSE CHOOSE v \in known : \A w \in known : FLeq(w, v)

\* my_agg(group): the stats of a trip but the distance, the times in seconds
my_agg(trip, group) ==
    LET start_time == timestr_to_seconds(group[1].departure_time)
        end_time   == timestr_to_seconds(group[Len(group)].departure_time)
    IN  [trip_id       |-> trip.trip_id,
         route_id      |-> trip.route_id,
         direction_id  |-> trip.direction_id,
         shape_id      |-> trip.shape_id,
         num_stops     |-> Len(group),
         start_time    |-> start_time,
         end_time      |-> end_time,
         start_stop_id |-> group[1].stop_id,
         end_stop_id   |-> group[Len(group)].stop_id,
         duration      |-> FDiv(Frac(end_time - start_time, 1), Frac(3600, 1))]

\* compute_dist that measures between the stops on a line that is not simple
compute_dist_on_any_line(trip, group, geometry_by_shape) ==
    IF trip.shape_id \notin DOMAIN geometry_by_shape THEN NaN
    ELSE LET linestring == geometry_by_shape[trip.shape_id]
             d == linestring.project[group[Len(group)].stop_id]
                  - linestring.project[group[1].stop_id]
         IN  IF d > 0 THEN Frac(d, 1) ELSE Frac(linestring.length, 1)

\* compute_dist(group), in metres; the stops of the trip have a geometry,
\* as my_agg has looked them up before
compute_dist(trip, group, geometry_by_shape) ==
    IF trip.shape_id \notin DOMAIN geometry_by_shape THEN NaN
    ELSE LET linestring == geometry_by_shape[trip.shape_id]
             d1 == linestring.project[group[1].stop_id]
             d2 == linestring.project[group[Len(group)].stop_id]
             d  == d2 - d1
         IN  IF ~linestring.is_simple THEN Frac(linestring.length, 1)
             ELSE IF d > 0 THEN Frac(d, 1)
             ELSE Frac(linestring.length, 1)

\* compute_trips_stats(feed, compute_dist_from_shapes) for a feed whose
\* trips all have a route of feed.routes and stop times: has_dist tells
\* whether stop_times has the column shape_dist_traveled, shapes is None or
\* the geometry by shape.  The rows are sorted by start_time, the trips
\* being of one route and direction; is_loop is left out
compute_trips_stats(trips, stop_times, has_dist, shapes, dist_units_out, compute_dist_from_shapes) ==
    LET group(i) == TripGroup(stop_times, trips[i].trip_id)
        distance(i) ==
            IF has_dist /\ ~compute_dist_from_shapes
            THEN MaxSkipNaN({group(i)[k].shape_dist_traveled :
                               k \in 1..Len(group(i))})
            ELSE IF ~shapes.isNone
            THEN get_convert_dist("m", dist_units_out,
                                  compute_dist(trips[i], group(i), shapes.by_shape))
            ELSE NaN
        h == [i \in 1..Len(trips) |->
                LET d == my_agg(trips[i], group(i))
                IN  WithTimeStrings(d @@ [distance |-> distance(i),
                                          speed |-> FDiv(distance(i), d.duration)])]
        before(r) == {i \in 1..Len(h) :
                        /\ h[i].start_time # r.start_time
                        /\ StrLeq(h[i].start_time, r.start_time)}
    IN  [k \in 1..Len(h) |-> CHOOSE r \in Range(h) : Cardinality(before(r)) = k - 1]

\* the stop times of the model: trip t1 visits A, B and C, its rows in the
\* order of the stop sequence or not, and trip t2 visits C and A earlier in
\* the day; the greatest shape_dist_traveled of t1 is not at its last stop
TripsStopTimes ==
    LET visit(trip, seq, stop, h, m, dist) ==
            [trip_id |-> trip, stop_sequence |-> seq, stop_id |-> stop,
             departure_time |-> FormatTime(h, m, 0),
             shape_dist_traveled |-> dist]
        a == visit("t1", 1, "A", 8, 0, Frac(0, 1))
        b == visit("t1", 2, "B", 8, 30, Frac(5, 2))
        c == visit("t1", 3, "C", 9, 30, Frac(1, 1))
        n == visit("t1", 3, "C", 9, 30, NaN)
        x == visit("t2", 1, "C", 7, 0, NaN)
        y == visit("t2", 2, "A", 7, 45, NaN)
    IN  {<<a, b, c>>, <<c, a, b>>, <<b, n, a>>, <<y, a, b, c, x>>, <<c, x, b, y, a>>}

\* the trips of the stop times
TripsOfStopTimes(stop_times) ==
    LET row(trip) == [trip_id |-> trip, route_id |-> "r1", direction_id |-> 0,
                      shape_id |-> "s"]
    IN  IF \E i \in 1..Len(stop_times) : stop_times[i].trip_id = "t2"
        THEN <<row("t1"), row("t2")>>
        ELSE <<row("t1")>>

\* the shapes of the model: none, a table without the shape of the trips, or
\* the line of shape s, simple or not, 5000 metres long, with the stops
\* along it in the order of trip t1, in the opposite order, or at one place
TripsShapes ==
    {[isNone |-> TRUE, by_shape |-> <<>>],
     [isNone |-> FALSE, by_shape |-> [id \in {"other"} |->
        [is_simple |-> TRUE, length |-> 5000,
         project |-> [stop \in {"A", "B", "C"} |-> 0]]]]}
    \cup
    {[isNone |-> FALSE, by_shape |-> [id \in {"s"} |->
        [is_simple |-> simple, length |-> 5000, project |-> project]]] :
       simple \in BOOLEAN,
       project \in {[A |-> 500, B |-> 2000, C |-> 3500],
                    [A |-> 3500, B |-> 2000, C |-> 500],
                    [A |-> 1000, B |-> 1000, C |-> 1000]}}

ComputeTripsStats ==
    /\ Idle
    /\ \E stop_times \in TripsStopTimes, has_dist \in BOOLEAN,
          shapes \in TripsShapes, dist_units_out \in {"m", "km"},
          compute_dist_from_shapes \in BOOLEAN :
           Call("compute_trips_stats",
                [trips |-> TripsOfStopTimes(stop_times),
                 stop_times |-> stop_times, has_dist |-> has_dist,
                 shapes |-> shapes, dist_units_out |-> dist_units_out,
                 compute_dist_from_shapes |-> compute_dist_from_shapes],
                Return(compute_trips_stats(TripsOfStopTimes(stop_times),
                                           stop_times, has_dist, shapes,
                                           dist_units_out,
                                           compute_dist_from_shapes)))

NextTrips ==
    \/ ComputeTripsStats
    \/ Done

SpecTrips == InitStats /\ [][NextTrips]_vars

----------------------------------------------------------------------------
(* Properties of the Feed objects of feed.py *)

\* the index of a table is the one derived from the table as it is now
Consistent(object, frames, attr) ==
    object[PrivateAttr(attr)] = DerivedIndex(attr, FrameOf(frames, object[attr]))

\* the index of a table is None
IndexIsNone(object, attr) == object[PrivateAttr(attr)].isNone

\* every row of the calendar has monday = 0
NoMondays(df) == \A i \in 1..Len(df.rows) : df.rows[i].monday = 0

\* the state after an assignment of a table: the table and its index are
\* those of the value assigned, and a calendar without Mondays lets no trip
\* be active on Monday 20200106 unless an exception adds it
AssignmentTaken(f, arguments) ==
    LET object == ObjectOf(f, arguments.object)
        attr   == arguments.attr
    IN  /\ FrameOf(f.frames, object[attr]) = arguments.val
        /\ object[PrivateAttr(attr)] = DerivedIndex(attr, arguments.val)
        /\ IndexIsNone(object, attr) <=>
               (arguments.val.isNone \/ IsEmpty(arguments.val))
        /\ (/\ attr = "calendar"
            /\ NoMondays(arguments.val)
            /\ ~object.trips_i.isNone
            /\ object.calendar_dates_g.isNone)
           => \A trip \in DOMAIN object.trips_i.at :
                  ~is_active_trip(View(object, f.frames), trip, 20200106)

\* C22: an assignment to trips, calendar or calendar_dates leaves the index
\* of that table derived from the table assigned, None exactly when the
\* table is None or empty, and activity is resolved with the new table; no
\* assignment lets any index differ from the one derived from its table if
\* it did not before, so the indices follow every sequence of assignments
C22_IndicesFollowAssignments ==
    [][/\ op' = "setattr" => AssignmentTaken(feed', args')
       /\ op' \in {"setattr", "dist_units"} =>
            \A obj \in Objects(feed), attr \in TableAttrs :
               Consistent(ObjectOf(feed, obj), feed.frames, attr)
                 => Consistent(ObjectOf(feed', obj), feed'.frames, attr)]_vars

\* a calendar whose monday column was set to 0 in place has been assigned
\* again, and trip t1 of service s1 is no longer active on Monday 20200106
C22_Witness ==
    /\ op = "setattr"
    /\ args.object = "self"
    /\ args.attr = "calendar"
    /\ args.how = "same"
    /\ ~IsEmpty(args.val)
    /\ NoMondays(args.val)
    /\ ~feed.self.trips_i.isNone
    /\ feed.self.trips_i.at["t1"].service_id = "s1"
    /\ feed.self.calendar_i.at["s1"].monday = 0
    /\ feed.self.calendar_i.at["s1"].tuesday = 1
    /\ ~is_active_trip(View(feed.self, feed.frames), "t1", 20200106)
    /\ is_active_trip(View(feed.self, feed.frames), "t1", 20200107)

\* the state after other = feed.copy(): the copy compares equal to the feed,
\* its tables are frames of their own, and each of its indices is that of the
\* feed and the one derived from its table, provided the feed's index was
\* the one derived from the feed's table
CopyMade(f) ==
    /\ feed_eq(f.self, f.other, f.frames)
    /\ feed_eq(f.other, f.self, f.frames)
    /\ \A attr \in TableAttrs :
         /\ f.self[attr] # 0 => f.other[attr] # f.self[attr]
         /\ Consistent(f.self, f.frames, attr) =>
              /\ f.other[PrivateAttr(attr)] = f.self[PrivateAttr(attr)]
              /\ Consistent(f.other, f.frames, attr)

ObjectsOf(f) == [frames |-> f.frames, self |-> f.self, other |-> f.other]

\* C28: giving dist_units a value that is not in DIST_UNITS, None included,
\* in an assignment or to the constructor, raises ValueError and leaves the
\* units, the tables and the indices of every feed as they were; a value in
\* DIST_UNITS is stored as it is and nothing else changes
C28_DistUnitsAreValidated ==
    [][/\ op' = "dist_units" =>
            IF args'.val \in DIST_UNITS
            THEN /\ ret'.raised = "none"
                 /\ ObjectOf(feed', args'.object).dist_units = args'.val
                 /\ ObjectsOf(feed') =
                      ObjectsOf(WithObject(feed, args'.object,
                                  [ObjectOf(feed, args'.object)
                                     EXCEPT !.dist_units = args'.val]))
            ELSE /\ ret'.raised = "ValueError"
                 /\ ObjectsOf(feed') = ObjectsOf(feed)
       /\ op' = "Feed" =>
            IF args'.dist_units \in DIST_UNITS
            THEN /\ ret'.raised = "none"
                 /\ feed'.self.dist_units = args'.dist_units
            ELSE /\ ret'.raised = "ValueError"
                 /\ ObjectsOf(feed') = ObjectsOf(feed)
       /\ \A obj \in Objects(feed') : ObjectOf(feed', obj).dist_units \in DIST_UNITS]_vars

\* a feed that has a trips table and the units mi was given None for its
\* units, and ValueError was raised
C28_Witness ==
    /\ op = "dist_units"
    /\ args.object = "self"
    /\ args.val = NoneUnits
    /\ ret.raised = "ValueError"
    /\ feed.self.dist_units = "mi"
    /\ feed.self.trips # 0
    /\ ~feed.self.trips_i.isNone

----------------------------------------------------------------------------
(* Properties of the trips counted at a stop *)

\* the trips of the subset that visit the stop of a row of the stops stats,
\* in the direction of the row when the directions are split
TripsVisiting(row) ==
    {st.trip_id : st \in
       {x \in Range(MergeStopTimes(args.stop_times, args.trips_subset)) :
          /\ x.stop_id = row.stop_id
          /\ args.split_directions => x.direction_id = row.direction_id}}

\* C26: num_trips of a stop, or of a stop and a direction, is the number of
\* distinct trips of the subset that visit the stop, also when a trip visits
\* the stop more than once
C26_NumTripsCountsDistinctTrips ==
    (op = "compute_stops_stats_base" /\ ret.raised = "none") =>
        \A i \in 1..Len(ret.value.rows) :
            ret.value.rows[i].num_trips =
                Cardinality(TripsVisiting(ret.value.rows[i]))

----------------------------------------------------------------------------
(* Properties of the stops time series *)

\* C24: compute_stops_time_series(feed, date, split_directions, freq)
\* returns what compute_stops_time_series_base returns for feed.stop_times
\* and the trips active on the date, with the same split_directions and freq
\* and with the date for date_label
C24_StopsTimeSeriesIsBaseOfActiveTrips ==
    op = "compute_stops_time_series" =>
        /\ ret.raised = "none"
        /\ ret = compute_stops_time_series_base(
                     args.feed.stop_times,
                     get_trips(args.feed, args.date, NoneTime).value,
                     args.split_directions, args.freq, args.date)

----------------------------------------------------------------------------
(* Properties of the first week of a feed *)

\* the places of the Mondays in a list of date strings
MondaysOf(range) ==
    {i \in 1..Len(range) : weekday(datestr_to_date(range[i])) = 0}

\* C27: get_first_week returns at most 7 consecutive dates of the date range
\* of the feed, from the first Monday of the range on: the 7 days from Monday
\* to Sunday when the range holds them, else the days of that week up to the
\* end of the range, and no date when the range has no Monday
C27_FirstWeekStartsOnFirstMonday ==
    (op = "get_first_week" /\ ret.raised = "none") =>
        LET week == ret.value
            range == get_dates(feed).value
            mondays == MondaysOf(range)
        IN  /\ Len(week) <= 7
            /\ \A j \in 1..(Len(week) - 1) :
                   datestr_to_date(week[j + 1]) = datestr_to_date(week[j]) + 1
            /\ mondays = {} => week = <<>>
            /\ mondays # {} =>
                 /\ Len(week) = Min({7, Len(range) - Min(mondays) + 1})
                 /\ \A j \in 1..Len(week) : week[j] = range[Min(mondays) + j - 1]
                 /\ weekday(datestr_to_date(week[1])) = 0

\* the range starts on Wednesday 20200101 and the week returned runs from
\* Monday 20200106 to Sunday 20200112
C27_Witness ==
    /\ op = "get_first_week"
    /\ ret.raised = "none"
    /\ get_dates(feed).value[1] = 20200101
    /\ Len(ret.value) = 7
    /\ ret.value[1] = 20200106
    /\ ret.value[7] = 20200112

----------------------------------------------------------------------------
(* Properties of the distances of the Feed class of calculator.py *)

\* C30: constructing a Feed does not modify the frames of the caller: after
\* a construction the caller's stop_times and shapes hold the distances they
\* held before, and two feeds constructed from the same tables with the
\* same units have the same distances
C30_ConstructionKeepsCallerFrames ==
    /\ (op = "Feed" /\ ret.raised = "none") =>
           /\ feed.stop_times = args.stop_times
           /\ feed.shapes = args.shapes
    /\ \A i, j \in 1..Len(feed.constructed) :
           (/\ feed.constructed[i].given.dist_units_in =
                 feed.constructed[j].given.dist_units_in
            /\ feed.constructed[i].given.dist_units_out =
                 feed.constructed[j].given.dist_units_out)
           => /\ feed.constructed[i].stop_times = feed.constructed[j].stop_times
              /\ feed.constructed[i].shapes = feed.constructed[j].shapes

----------------------------------------------------------------------------
(* Properties of the trips stats *)

\* the stop times given for a trip
VisitsOf(trip) == {v \in Range(args.stop_times) : v.trip_id = trip}

\* the visits of a trip with the least and the greatest stop_sequence
FirstVisit(trip) ==
    CHOOSE v \in VisitsOf(trip) :
        \A w \in VisitsOf(trip) : v.stop_sequence <= w.stop_sequence

LastVisit(trip) ==
    CHOOSE v \in VisitsOf(trip) :
        \A w \in VisitsOf(trip) : w.stop_sequence <= v.stop_sequence

\* the distance of a trip along its shape line, in metres
DistanceOnShape(trip) ==
    LET linestring == args.shapes.by_shape["s"]
        d == linestring.project[LastVisit(trip).stop_id]
             - linestring.project[FirstVisit(trip).stop_id]
    IN  IF linestring.is_simple /\ d > 0 THEN d ELSE linestring.length

\* the distance the priority rule gives a trip, in the units of the feed
DistanceByPriority(trip) ==
    IF args.has_dist /\ ~args.compute_dist_from_shapes
    THEN LET known == {v.shape_dist_traveled : v \in
                         {w \in VisitsOf(trip) : ~IsNaN(w.shape_dist_traveled)}}
         IN  IF known = {} THEN NaN
             ELSE CHOOSE x \in known : \A y \in known : FLeq(y, x)
    ELSE IF ~args.shapes.isNone
    THEN IF "s" \notin DOMAIN args.shapes.by_shape THEN NaN
         ELSE get_convert_dist("m", args.dist_units_out,
                               Frac(DistanceOnShape(trip), 1))
    ELSE NaN

\* C25: the distance of a trip is (a) the greatest shape_dist_traveled of the
\* trip when stop_times has the column and compute_dist_from_shapes is
\* False, (b) else, when there are shapes, the projection of the last stop
\* minus that of the first on the line of the trip's shape if that is
\* positive and the line is simple, the length of the line if not, undefined
\* if the shape is missing, (c) else undefined; the duration is the last
\* departure minus the first, in the order of stop_sequence, over 3600
C25_DistanceByPriorityAndDuration ==
    op = "compute_trips_stats" =>
        /\ {ret.value[i].trip_id : i \in 1..Len(ret.value)} =
             {args.trips[i].trip_id : i \in 1..Len(args.trips)}
        /\ Len(ret.value) = Len(args.trips)
        /\ \A i \in 1..Len(ret.value) :
             LET row == ret.value[i]
                 first == FirstVisit(row.trip_id)
                 last == LastVisit(row.trip_id)
             IN  /\ row.distance = DistanceByPriority(row.trip_id)
                 /\ row.duration =
                      FDiv(Frac(timestr_to_seconds(last.departure_time)
                                - timestr_to_seconds(first.departure_time), 1),
                           Frac(3600, 1))
                 /\ row.start_time = first.departure_time
                 /\ row.end_time = last.departure_time

\* the stop times of t1 are not in the order of the stop sequence, the
\* distance is asked from the shapes although stop_times has distances, and
\* t1 gets the 3 km between its end stops on the shape and 1.5 hours
C25_Witness ==
    /\ op = "compute_trips_stats"
    /\ args.has_dist
    /\ args.compute_dist_from_shapes
    /\ args.dist_units_out = "km"
    /\ args.stop_times[1].stop_sequence = 3
    /\ ~args.shapes.isNone
    /\ \E i \in 1..Len(ret.value) :
         /\ ret.value[i].trip_id = "t1"
         /\ ret.value[i].distance = Frac(3, 1)
         /\ ret.value[i].duration = Frac(3, 2)
         /\ ret.value[i].speed = Frac(2, 1)

====
